---- MODULE Spec2Model ----
(***************************************************************************)
(* A model of the backtesting engine of src/backtesting/engine.py:        *)
(* BacktestConfig, Trade and BacktestEngine.run with the helpers it calls. *)
(*                                                                         *)
(* Numbers.  The engine computes in floating point.  The model computes   *)
(* in integers: money and prices are in hundredths (a close of 100.00 is  *)
(* 10000), rates are in basis points (0.001 is 10), position_size is in  *)
(* per cent, quantities are whole units, and every division rounds down.  *)
(* Timestamps are bar indices.                                            *)
(* An Optional field is None (the empty tuple) or Some(v) (a 1-tuple).    *)
(***************************************************************************)
EXTENDS Integers, Sequences, FiniteSets

VARIABLES
    config,            \* self.config, fixed at construction
    pc,                \* position of run(): idle, loop, exits, signal, equity, finish, done, saved
    n,                 \* len(data) of the series given to run()
    i,                 \* loop index of run()
    current_bar,       \* data.iloc[i] of the bar being processed
    signal,            \* the local `signal` of run() once the try/except is over
    raised,            \* whether strategy_func raised on this bar (logger.error)
    current_capital,   \* self.current_capital
    open_positions,    \* self.open_positions
    trades,            \* self.trades, the closed ledger
    equity_curve,        \* self.equity_curve
    performance_metrics, \* self.performance_metrics: None ({}) or the metrics
    saved,             \* result_data of the last save_results, or None
    tape,              \* the inputs of the loop: per bar from the warm-up on, the
                       \* prepared bar and what the signal function does there
    returned,          \* what the finished calls of run() returned, in order
    data,              \* the DataFrame of run() after _prepare_data, when it is given whole
    historical_data,   \* the window run() handed to strategy_func on this bar
    handler,           \* run_backtest of the API server: its position and its locals
    df,                \* the input of an indicator or of a strategy's signal
    other_df,          \* a second input, to compare with the first
    applied,           \* the last indicator or signal applied, with its outputs
    backtest_results,  \* the rows of the table "backtest_results" of the database
    auto_enabled,      \* the flag "auto_enabled" of state.json
    loops,             \* the run_auto_loop tasks created so far, with their locals
    connections,       \* self.connections of the websocket manager (its keys)
    callbacks,         \* self.callbacks of the websocket manager
    listeners          \* the _connect_and_listen tasks created so far

vars == <<config, pc, n, i, current_bar, signal, raised,
          current_capital, open_positions, trades, equity_curve,
          performance_metrics, saved, tape, returned,
          data, historical_data, handler, df, other_df, applied,
          backtest_results, auto_enabled, loops, connections, callbacks,
          listeners>>

-----------------------------------------------------------------------------
(* Bounds and program constants *)

\* bars processed after the warm-up, at most
MaxBars == 3

\* range(50, len(data)): the first processed index
WarmUp == 50

\* BacktestConfig defaults, in the model's units
InitialCapital == 1000000
StopLossPct == 200
TakeProfitPct == 400
AtrStopMultiplier == 2
AtrProfitMultiplier == 3

None == <<>>
Some(v) == <<v>>
Val(o) == o[1]

\* x * (bp / 10000), rounded down
Bp(x, bp) == (x * bp) \div 10000

\* The configurations a run is checked under.
Configs ==
    [initial_capital : {InitialCapital},
     commission_rate : {0, 10},
     slippage_rate : {0, 5},
     position_sizing : {"fixed", "percentage"},
     position_size : {60},
     max_positions : {1, 2},
     stop_loss_pct : {StopLossPct},
     take_profit_pct : {TakeProfitPct},
     use_atr_stops : BOOLEAN,
     atr_stop_multiplier : {AtrStopMultiplier},
     atr_profit_multiplier : {AtrProfitMultiplier}]

\* The shapes of a bar: flat, falling, rising, and wide about its close.
BarShapes ==
    {[low |-> 10000, high |-> 10000, close |-> 10000],
     [low |-> 9000, high |-> 10000, close |-> 9000],
     [low |-> 10000, high |-> 11000, close |-> 11000],
     [low |-> 9000, high |-> 11000, close |-> 10000]}

\* The 'atr' column of a bar: absent or NaN (None), or a value.
AtrValues(cfg) == IF cfg.use_atr_stops THEN {None, Some(300)} ELSE {None}

Bars(cfg) ==
    {[low |-> b.low, high |-> b.high, close |-> b.close, atr |-> a] :
        b \in BarShapes, a \in AtrValues(cfg)}

NoBar == [low |-> 0, high |-> 0, close |-> 0, atr |-> None]

\* What a call of strategy_func does: return a signal, or raise.
Outcomes == {"BUY", "SELL", "HOLD", "RAISE"}

\* len(data) of the series: empty, exactly the warm-up, or longer.
DataLens == {0, WarmUp} \cup ((WarmUp + 1) .. (WarmUp + MaxBars))

-----------------------------------------------------------------------------
(* Trade *)

NewTrade(timestamp, side, entry_price, quantity, commission) ==
    [entry_time |-> timestamp,
     exit_time |-> None,
     side |-> side,
     entry_price |-> entry_price,
     exit_price |-> None,
     quantity |-> quantity,
     commission |-> commission,
     pnl |-> None,
     pnl_percent |-> None,
     exit_reason |-> None]

TradePnl(t, exit_price) ==
    IF t.side = "BUY"
    THEN (exit_price - t.entry_price) * t.quantity - t.commission
    ELSE (t.entry_price - exit_price) * t.quantity - t.commission

\* Trade.close that forgets the exit reason
TradeCloseNoReason(t, exit_price, exit_time, reason) ==
    LET pnl == TradePnl(t, exit_price)
    IN [t EXCEPT !.exit_price = Some(exit_price),
                 !.exit_time = Some(exit_time),
                 !.pnl = Some(pnl),
                 !.pnl_percent = Some((pnl * 100) \div (t.entry_price * t.quantity))]

\* Trade.close
TradeClose(t, exit_price, exit_time, reason) ==
    LET pnl == TradePnl(t, exit_price)
    IN [t EXCEPT !.exit_price = Some(exit_price),
                 !.exit_time = Some(exit_time),
                 !.exit_reason = Some(reason),
                 !.pnl = Some(pnl),
                 !.pnl_percent = Some((pnl * 100) \div (t.entry_price * t.quantity))]

-----------------------------------------------------------------------------
(* The engine's helpers, as functions of the engine state                  *)
(* st = [cash, open, closed] = (current_capital, open_positions, trades).  *)

EngineState(cash, open, closed) == [cash |-> cash, open |-> open, closed |-> closed]

\* list.remove(x): drop the first element equal to x
RECURSIVE Remove(_, _)
Remove(s, x) ==
    IF s = <<>> THEN <<>>
    ELSE IF Head(s) = x THEN Tail(s)
    ELSE <<Head(s)>> \o Remove(Tail(s), x)

\* a sizing that takes the initial capital in every mode
CalculatePositionSizeOfInitial(cfg, cash, price) ==
    (cfg.position_size * cfg.initial_capital) \div (100 * price)

\* _calculate_position_size
CalculatePositionSize(cfg, cash, price) ==
    IF cfg.position_sizing = "fixed"
    THEN (cfg.position_size * cfg.initial_capital) \div (100 * price)
    ELSE IF cfg.position_sizing = "percentage"
    THEN (cfg.position_size * cash) \div (100 * price)
    ELSE (cfg.position_size * cfg.initial_capital) \div (100 * price)

EntryPrice(cfg, side, bar) ==
    IF side = "BUY"
    THEN Bp(bar.close, 10000 + cfg.slippage_rate)
    ELSE Bp(bar.close, 10000 - cfg.slippage_rate)

ExitPrice(cfg, side, bar) ==
    IF side = "BUY"
    THEN Bp(bar.close, 10000 - cfg.slippage_rate)
    ELSE Bp(bar.close, 10000 + cfg.slippage_rate)

\* required_capital of _open_position
RequiredCapital(cfg, quantity, entry_price) ==
    quantity * entry_price + Bp(quantity * entry_price, cfg.commission_rate)

\* _open_position without the test of the available capital
OpenPositionUnchecked(cfg, st, side, bar, timestamp) ==
    LET position_size == CalculatePositionSize(cfg, st.cash, bar.close)
        entry_price == EntryPrice(cfg, side, bar)
        commission == Bp(position_size * entry_price, cfg.commission_rate)
        required_capital == RequiredCapital(cfg, position_size, entry_price)
    IN IF position_size <= 0 THEN st
       ELSE [st EXCEPT
                !.open = Append(st.open,
                    NewTrade(timestamp, side, entry_price, position_size, commission)),
                !.cash = st.cash - required_capital]

\* _open_position
OpenPosition(cfg, st, side, bar, timestamp) ==
    LET position_size == CalculatePositionSize(cfg, st.cash, bar.close)
        entry_price == EntryPrice(cfg, side, bar)
        commission == Bp(position_size * entry_price, cfg.commission_rate)
        required_capital == RequiredCapital(cfg, position_size, entry_price)
    IN IF position_size <= 0 THEN st
       ELSE IF required_capital > st.cash THEN st
       ELSE [st EXCEPT
                !.open = Append(st.open,
                    NewTrade(timestamp, side, entry_price, position_size, commission)),
                !.cash = st.cash - required_capital]

\* a _close_position that leaves the trade in open_positions
ClosePositionLeftOpen(cfg, st, trade, bar, timestamp, reason) ==
    LET exit_price == ExitPrice(cfg, trade.side, bar)
        closed == TradeClose(trade, exit_price, timestamp, reason)
    IN [cash |-> st.cash + closed.quantity * exit_price,
        open |-> st.open,
        closed |-> Append(st.closed, closed)]

\* _close_position
ClosePosition(cfg, st, trade, bar, timestamp, reason) ==
    LET exit_price == ExitPrice(cfg, trade.side, bar)
        charged == [trade EXCEPT !.commission =
                       trade.commission + Bp(trade.quantity * exit_price, cfg.commission_rate)]
        closed == TradeClose(charged, exit_price, timestamp, reason)
        cash1 == st.cash + closed.quantity * exit_price - closed.commission
        cash2 == IF Val(closed.pnl) # 0 THEN cash1 + Val(closed.pnl) ELSE cash1
    IN [cash |-> cash2,
        open |-> Remove(st.open, trade),
        closed |-> Append(st.closed, closed)]

\* _close_all_positions: over a copy of open_positions, in order
RECURSIVE CloseEach(_, _, _, _, _, _)
CloseEach(cfg, st, todo, bar, timestamp, reason) ==
    IF todo = <<>> THEN st
    ELSE CloseEach(cfg, ClosePosition(cfg, st, Head(todo), bar, timestamp, reason),
                   Tail(todo), bar, timestamp, reason)

\* _close_all_positions iterating the list it removes from: every other
\* position is skipped
RECURSIVE CloseEveryOther(_, _, _, _, _, _)
CloseEveryOther(cfg, st, todo, bar, timestamp, reason) ==
    IF todo = <<>> THEN st
    ELSE CloseEveryOther(cfg, ClosePosition(cfg, st, Head(todo), bar, timestamp, reason),
                         IF Len(todo) > 1 THEN Tail(Tail(todo)) ELSE <<>>,
                         bar, timestamp, reason)

CloseAllPositionsInPlace(cfg, st, bar, timestamp, reason) ==
    CloseEveryOther(cfg, st, st.open, bar, timestamp, reason)

CloseAllPositions(cfg, st, bar, timestamp, reason) ==
    CloseEach(cfg, st, st.open, bar, timestamp, reason)

\* whether _check_exits takes the ATR branch on this bar
UsesAtr(cfg, bar) == cfg.use_atr_stops /\ bar.atr # None

StopPrice(cfg, trade, bar) ==
    IF UsesAtr(cfg, bar)
    THEN trade.entry_price - Val(bar.atr) * cfg.atr_stop_multiplier
    ELSE Bp(trade.entry_price, 10000 - cfg.stop_loss_pct)

ProfitPrice(cfg, trade, bar) ==
    IF UsesAtr(cfg, bar)
    THEN trade.entry_price + Val(bar.atr) * cfg.atr_profit_multiplier
    ELSE Bp(trade.entry_price, 10000 + cfg.take_profit_pct)

\* _check_exits with the take-profit test ahead of the stop-loss test
ExitReasonProfitFirst(cfg, trade, bar) ==
    IF trade.side # "BUY" THEN None
    ELSE IF bar.high >= ProfitPrice(cfg, trade, bar) THEN Some("take_profit")
    ELSE IF bar.low <= StopPrice(cfg, trade, bar) THEN Some("stop_loss")
    ELSE None

\* the reason _check_exits closes a trade for on this bar, or None
ExitReason(cfg, trade, bar) ==
    IF trade.side # "BUY" THEN None
    ELSE IF bar.low <= StopPrice(cfg, trade, bar) THEN Some("stop_loss")
    ELSE IF bar.high >= ProfitPrice(cfg, trade, bar) THEN Some("take_profit")
    ELSE None

\* _check_exits: over a copy of open_positions, in order
RECURSIVE CheckEach(_, _, _, _, _)
CheckEach(cfg, st, todo, bar, timestamp) ==
    IF todo = <<>> THEN st
    ELSE LET reason == ExitReason(cfg, Head(todo), bar)
             st1 == IF reason = None THEN st
                    ELSE ClosePosition(cfg, st, Head(todo), bar, timestamp, Val(reason))
         IN CheckEach(cfg, st1, Tail(todo), bar, timestamp)

CheckExitsOf(cfg, st, bar, timestamp) == CheckEach(cfg, st, st.open, bar, timestamp)

\* an except clause that answers a strategy error by selling
SignalOfErrorSells(outcome) == IF outcome = "RAISE" THEN "SELL" ELSE outcome

\* the try/except around strategy_func
SignalOf(outcome) == IF outcome = "RAISE" THEN "HOLD" ELSE outcome

\* "Process signal" with the position bound off by one
ApplySignalOffByOne(cfg, st, sig, bar, timestamp) ==
    IF sig = "BUY" /\ Len(st.open) <= cfg.max_positions
    THEN OpenPosition(cfg, st, "BUY", bar, timestamp)
    ELSE IF sig = "SELL" /\ st.open # <<>>
    THEN CloseAllPositions(cfg, st, bar, timestamp, "signal")
    ELSE st

\* "Process signal" of run()
ApplySignal(cfg, st, sig, bar, timestamp) ==
    IF sig = "BUY" /\ Len(st.open) < cfg.max_positions
    THEN OpenPosition(cfg, st, "BUY", bar, timestamp)
    ELSE IF sig = "SELL" /\ st.open # <<>>
    THEN CloseAllPositions(cfg, st, bar, timestamp, "signal")
    ELSE st

\* _update_equity: the value appended to the equity curve
RECURSIVE OpenValue(_, _)
OpenValue(open, bar) ==
    IF open = <<>> THEN 0
    ELSE LET t == Head(open)
             unrealized_pnl == IF t.side = "BUY"
                               THEN (bar.close - t.entry_price) * t.quantity
                               ELSE (t.entry_price - bar.close) * t.quantity
         IN t.quantity * bar.close + unrealized_pnl + OpenValue(Tail(open), bar)

TotalEquity(cash, open, bar) == cash + OpenValue(open, bar)

\* an iteration that consults the signal before it checks the exits
StepOrderSignalFirst == <<"signal", "exits", "equity">>

\* the steps of one iteration of run()'s loop, in order
StepOrder == <<"exits", "signal", "equity">>

\* where run() is after the step at position k of an iteration
After(k) == IF k < Len(StepOrder) THEN StepOrder[k + 1] ELSE "loop"

Pos(step) == CHOOSE k \in 1..Len(StepOrder) : StepOrder[k] = step

Here == EngineState(current_capital, open_positions, trades)

Become(st) ==
    /\ current_capital' = st.cash
    /\ open_positions' = st.open
    /\ trades' = st.closed

-----------------------------------------------------------------------------
(* The metrics.  A percentage is in hundredths, rounded as the engine       *)
(* rounds it to two decimals.  The Sharpe and Sortino ratios                *)
(* are kept as what kind of number they are: "zero", a "finite" quotient of *)
(* a mean by a positive deviation, or "nan".                                *)

Range(s) == {s[k] : k \in 1..Len(s)}

Max(S) == CHOOSE x \in S : \A y \in S : y <= x
Min(S) == CHOOSE x \in S : \A y \in S : x <= y

\* round(d / p * 100, 2) in hundredths, for p > 0
Ratio10000(d, p) ==
    LET x == (d * 100) \div p
        r == (d * 100) % p
    IN x * 100 + (2 * r * 100 + p) \div (2 * p)

RECURSIVE Gcd(_, _)
Gcd(x, y) == IF y = 0 THEN x ELSE Gcd(y, x % y)

RECURSIVE SumPnl(_)
SumPnl(s) == IF s = <<>> THEN 0 ELSE Val(Head(s).pnl) + SumPnl(Tail(s))

RECURSIVE SumDuration(_)
SumDuration(s) ==
    IF s = <<>> THEN 0
    ELSE (Val(Head(s).exit_time) - Head(s).entry_time) + SumDuration(Tail(s))

\* pd.Series(curve).pct_change().dropna(): the return of point k+1 over point
\* k, kept as the reduced fraction curve[k+1] / curve[k] with a denominator
\* above 0.  Over a point that is 0 the return is infinite, <<1, 0>> or
\* <<-1, 0>>, or NaN (0 over 0), which dropna drops
PctChange(curve) ==
    LET size(x) == IF x < 0 THEN 0 - x ELSE x
        sign(x) == IF x < 0 THEN 0 - 1 ELSE IF x > 0 THEN 1 ELSE 0
        ratio(x, y) ==
            IF y = 0 THEN <<sign(x), 0>>
            ELSE LET g == Gcd(size(x), size(y))
                 IN <<sign(y) * (x \div g), size(y) \div g>>
    IN SelectSeq([k \in 1..(Len(curve) - 1) |-> ratio(curve[k + 1], curve[k])],
                 LAMBDA r : r # <<0, 0>>)

\* returns[returns < 0]
Downside(returns) == SelectSeq(returns, LAMBDA r : r[1] < r[2])

\* Series.std(): undefined below two values, zero when all are equal
StdKind(returns) ==
    IF Len(returns) < 2 THEN "nan"
    ELSE IF \E r \in Range(returns) : r[2] = 0 THEN "nan"
    ELSE IF Cardinality(Range(returns)) = 1 THEN "zero"
    ELSE "positive"

\* the Sharpe ratio of _calculate_metrics
SharpeRatio(curve) ==
    IF Len(curve) > 1
    THEN IF StdKind(PctChange(curve)) = "positive" THEN "finite" ELSE "zero"
    ELSE "zero"

\* the first value in place of the running peak
CummaxFirst(curve) == [k \in 1..Len(curve) |-> curve[1]]

\* Series.cummax()
RECURSIVE Cummax(_)
Cummax(curve) ==
    IF Len(curve) <= 1 THEN curve
    ELSE LET front == Cummax(SubSeq(curve, 1, Len(curve) - 1))
             peak == front[Len(front)]
             last == curve[Len(curve)]
         IN Append(front, IF last > peak THEN last ELSE peak)

\* (equity_series - cummax) / cummax * 100, to two decimals, in hundredths
Drawdown(curve) ==
    LET cummax == Cummax(curve)
    IN [k \in 1..Len(curve) |-> 0 - Ratio10000(cummax[k] - curve[k], cummax[k])]

\* abs(drawdown.min()) * 100, to two decimals
MaxDrawdown(curve) ==
    IF Len(curve) > 0
    THEN LET least == Min(Range(Drawdown(curve)))
         IN IF least < 0 THEN 0 - least ELSE least
    ELSE 0

\* metrics of an empty ledger whose Sharpe ratio is left undefined
NoTradeMetricsUndefined ==
    [total_return |-> 0,
     total_trades |-> 0,
     win_rate |-> 0,
     profit_factor |-> 0,
     sharpe_ratio |-> "nan",
     max_drawdown |-> 0]

\* the branch of _calculate_metrics for an empty ledger
NoTradeMetrics ==
    [total_return |-> 0,
     total_trades |-> 0,
     win_rate |-> 0,
     profit_factor |-> 0,
     sharpe_ratio |-> "zero",
     max_drawdown |-> 0]

\* gross_loss of _calculate_metrics
GrossLoss(losing_trades) ==
    IF losing_trades # <<>>
    THEN LET total == SumPnl(losing_trades) IN IF total < 0 THEN 0 - total ELSE total
    ELSE 100

\* profit_factor of _calculate_metrics
ProfitFactor(gross_profit, gross_loss) ==
    IF gross_loss > 0 THEN (gross_profit * 100) \div gross_loss ELSE 0

\* final_capital of _calculate_metrics
FinalCapital(cfg, curve) ==
    IF curve # <<>> THEN curve[Len(curve)] ELSE cfg.initial_capital

\* _calculate_metrics
CalculateMetrics(cfg, closed, curve) ==
    IF closed = <<>> THEN NoTradeMetrics
    ELSE
    LET total_trades == Len(closed)
        winning_trades == SelectSeq(closed, LAMBDA t : Val(t.pnl) > 0)
        losing_trades == SelectSeq(closed, LAMBDA t : Val(t.pnl) < 0)
        gross_profit == IF winning_trades # <<>> THEN SumPnl(winning_trades) ELSE 0
        counted == {Val(t.pnl) : t \in {u \in Range(closed) : Val(u.pnl) # 0}}
    IN [total_return |->
            IF curve # <<>>
            THEN Ratio10000(curve[Len(curve)] - cfg.initial_capital, cfg.initial_capital)
            ELSE 0,
        total_trades |-> total_trades,
        winning_trades |-> Len(winning_trades),
        losing_trades |-> Len(losing_trades),
        win_rate |-> (Len(winning_trades) * 10000) \div total_trades,
        profit_factor |-> ProfitFactor(gross_profit, GrossLoss(losing_trades)),
        sharpe_ratio |-> SharpeRatio(curve),
        max_drawdown |-> MaxDrawdown(curve),
        avg_win |-> IF winning_trades # <<>>
                    THEN SumPnl(winning_trades) \div Len(winning_trades) ELSE 0,
        avg_loss |-> IF losing_trades # <<>>
                     THEN SumPnl(losing_trades) \div Len(losing_trades) ELSE 0,
        avg_trade_duration_hours |-> (SumDuration(closed) * 100) \div total_trades,
        best_trade |-> IF counted # {} THEN Max(counted) ELSE 0,
        worst_trade |-> IF counted # {} THEN Min(counted) ELSE 0,
        final_capital |-> FinalCapital(cfg, curve)]

\* dict.get(key, default) on the metrics
Get(metrics, key, default) ==
    IF key \in DOMAIN metrics THEN metrics[key] ELSE default

\* _calculate_sortino_ratio
SortinoRatio(curve) ==
    IF Len(curve) < 2 THEN "zero"
    ELSE LET downside_returns == Downside(PctChange(curve))
         IN IF Len(downside_returns) = 0 THEN "zero"
            ELSE IF StdKind(downside_returns) = "zero" THEN "zero"
            ELSE IF StdKind(downside_returns) = "nan" THEN "nan"
            ELSE "finite"

\* _calculate_annual_return, for the day counts of Days: with 365 days the
\* exponent is 1 and the annual return is the total return
AnnualReturn(cfg, curve, days) ==
    IF Len(curve) < 2 THEN 0
    ELSE IF days <= 0 THEN 0
    ELSE Ratio10000(curve[Len(curve)] - cfg.initial_capital, cfg.initial_capital)

\* (end_date - start_date).days of a call of save_results
Days == {0 - 1, 0, 365}

\* a report of the final capital with no default for metrics without one
ReportedFinalCapitalOrZero(cfg, metrics) == Get(metrics, "final_capital", 0)

\* the final capital that is reported for the metrics
ReportedFinalCapital(cfg, metrics) == Get(metrics, "final_capital", cfg.initial_capital)

\* result_data of save_results (its numbers)
ResultData(cfg, metrics, closed, curve, days) ==
    [days |-> days,    \* start_date and end_date, as the days from one to the other
     initial_capital |-> cfg.initial_capital,
     final_capital |-> ReportedFinalCapital(cfg, metrics),
     total_return |-> Get(metrics, "total_return", 0),
     annual_return |-> AnnualReturn(cfg, curve, days),
     total_trades |-> Get(metrics, "total_trades", 0),
     win_rate |-> Get(metrics, "win_rate", 0),
     profit_factor |-> Get(metrics, "profit_factor", 0),
     sharpe_ratio |-> Get(metrics, "sharpe_ratio", "zero"),
     sortino_ratio |-> SortinoRatio(curve),
     max_drawdown |-> Get(metrics, "max_drawdown", 0),
     best_trade |-> Get(metrics, "best_trade", 0),
     worst_trade |-> Get(metrics, "worst_trade", 0),
     trades |-> closed]

-----------------------------------------------------------------------------
(* The 'atr' column that _prepare_data adds: core.indicators.atr.  A series *)
(* is a sequence of bars [low, high, close]; index k of the data is         *)
(* element k + 1 of the sequence.                                           *)

AtrPeriod == 14

Abs(x) == IF x < 0 THEN 0 - x ELSE x

\* tr at index k: the largest of high - low, |high - prev_close| and
\* |low - prev_close|, the last two undefined (skipped) at index 0
TrueRange(series, k) ==
    LET bar == series[k + 1]
    IN IF k = 0 THEN bar.high - bar.low
       ELSE LET prev_close == series[k].close
            IN Max({bar.high - bar.low,
                    Abs(bar.high - prev_close),
                    Abs(bar.low - prev_close)})

RECURSIVE SumTrueRange(_, _, _)
SumTrueRange(series, from, to) ==
    IF from > to THEN 0
    ELSE TrueRange(series, to) + SumTrueRange(series, from, to - 1)

\* tr.rolling(period).mean() at index k: NaN before period values exist
Atr(series, period, k) ==
    IF k < period - 1 THEN None
    ELSE Some(SumTrueRange(series, k - period + 1, k) \div period)

\* the DataFrame after _prepare_data
PrepareData(cfg, series) ==
    [k \in 1..Len(series) |->
        [low |-> series[k].low, high |-> series[k].high, close |-> series[k].close,
         atr |-> IF cfg.use_atr_stops THEN Atr(series, AtrPeriod, k - 1) ELSE None]]

\* BacktestConfig()
DefaultConfig ==
    [initial_capital |-> InitialCapital,
     commission_rate |-> 10,
     slippage_rate |-> 5,
     position_sizing |-> "fixed",
     position_size |-> 10,
     max_positions |-> 1,
     stop_loss_pct |-> StopLossPct,
     take_profit_pct |-> TakeProfitPct,
     use_atr_stops |-> TRUE,
     atr_stop_multiplier |-> AtrStopMultiplier,
     atr_profit_multiplier |-> AtrProfitMultiplier]

\* a series of len bars whose every price is 100
FlatSeries(len) == [k \in 1..len |-> [low |-> 10000, high |-> 10000, close |-> 10000]]

\* a tape: for each index of the data from the warm-up on, the prepared bar
\* and what the signal function does when it is called there
TapeOf(cfg, series, outcomes) ==
    LET prepared == PrepareData(cfg, series)
    IN [k \in 1..(Len(series) - WarmUp) |->
           [bar |-> prepared[WarmUp + k], outcome |-> outcomes[WarmUp + k]]]

\* a signal function that returns BUY exactly at index b and HOLD elsewhere
BuyOnceAt(len, b) == [k \in 1..len |-> IF k = b + 1 THEN "BUY" ELSE "HOLD"]

-----------------------------------------------------------------------------
(* The indicators of core.indicators on a Series or a DataFrame.  A value   *)
(* is NaN or an exact fraction <<p, q>> with q > 0 in lowest terms; a       *)
(* Series is a sequence of values, and index k of the code is element       *)
(* k + 1.  Every operation on NaN gives NaN and every comparison with NaN   *)
(* is false, as in pandas.                                                  *)

NaN == <<>>

\* the fraction p / q, for q > 0
Q(p, q) == LET g == Gcd(Abs(p), q) IN <<p \div g, q \div g>>

FAdd(x, y) ==
    IF x = NaN \/ y = NaN THEN NaN ELSE Q(x[1] * y[2] + y[1] * x[2], x[2] * y[2])

FSub(x, y) ==
    IF x = NaN \/ y = NaN THEN NaN ELSE Q(x[1] * y[2] - y[1] * x[2], x[2] * y[2])

FMul(x, y) ==
    IF x = NaN \/ y = NaN THEN NaN ELSE Q(x[1] * y[1], x[2] * y[2])

\* x / y; the code divides by 0 only after .replace(0, np.nan)
FDiv(x, y) ==
    IF x = NaN \/ y = NaN THEN NaN
    ELSE IF y[1] = 0 THEN NaN
    ELSE IF y[1] > 0 THEN Q(x[1] * y[2], x[2] * y[1])
    ELSE Q(0 - x[1] * y[2], 0 - x[2] * y[1])

FLess(x, y) == x # NaN /\ y # NaN /\ x[1] * y[2] < y[1] * x[2]

FLeq(x, y) == x # NaN /\ y # NaN /\ x[1] * y[2] <= y[1] * x[2]

\* a value as it is, sign included
FSame(x) == x

FAbs(x) == IF x = NaN THEN NaN ELSE <<Abs(x[1]), x[2]>>

\* the column of a DataFrame, as a Series of values
Column(frame, name) == [k \in 1..Len(frame) |-> <<frame[k][name], 1>>]

\* the sum of elements from..to of a Series
RECURSIVE RollingSum(_, _, _)
RollingSum(series, from, to) ==
    IF from > to THEN <<0, 1>>
    ELSE FAdd(series[to], RollingSum(series, from, to - 1))

\* a rolling mean that also reads the element after each window
SmaAhead(series, window) ==
    [k \in 1..Len(series) |->
        IF k < window THEN NaN
        ELSE LET to == IF k < Len(series) THEN k + 1 ELSE k
             IN FDiv(RollingSum(series, to - window + 1, to), <<window, 1>>)]

\* series.rolling(window, min_periods=1).mean(): the mean of what there is
SmaOfAvailable(series, window) ==
    [k \in 1..Len(series) |->
        LET from == IF k < window THEN 1 ELSE k - window + 1
        IN FDiv(RollingSum(series, from, k), <<k - from + 1, 1>>)]

\* sma: series.rolling(window).mean()
Sma(series, window) ==
    [k \in 1..Len(series) |->
        IF k < window THEN NaN
        ELSE FDiv(RollingSum(series, k - window + 1, k), <<window, 1>>)]

\* series.ewm(alpha=alpha, adjust=False).mean() at element k, for a Series
\* whose NaN, if any, are at its start
RECURSIVE EwmAt(_, _, _)
EwmAt(series, alpha, k) ==
    IF k = 1 THEN series[1]
    ELSE LET prev == EwmAt(series, alpha, k - 1)
         IN IF prev = NaN THEN series[k]
            ELSE FAdd(FMul(FSub(<<1, 1>>, alpha), prev), FMul(alpha, series[k]))

Ewm(series, alpha) == [k \in 1..Len(series) |-> EwmAt(series, alpha, k)]

\* ema: series.ewm(span=span, adjust=False).mean()
Ema(series, span) == Ewm(series, Q(2, span + 1))

\* series.diff()
Diff(series) ==
    [k \in 1..Len(series) |-> IF k = 1 THEN NaN ELSE FSub(series[k], series[k - 1])]

\* rsi.  In rs = ma_up / (ma_down + 1e-12) the 1e-12 counts only when ma_down
\* is 0: rs is then 0 for ma_up = 0 and so large otherwise that the result
\* is 100 to ten decimals
Rsi(series, period) ==
    LET delta == Diff(series)
        up == [k \in 1..Len(series) |->
                 IF delta[k] = NaN THEN NaN
                 ELSE IF delta[k][1] < 0 THEN <<0, 1>> ELSE delta[k]]
        down == [k \in 1..Len(series) |->
                   IF delta[k] = NaN THEN NaN
                   ELSE IF delta[k][1] > 0 THEN <<0, 1>> ELSE FAbs(delta[k])]
        ma_up == Ewm(up, Q(1, period))
        ma_down == Ewm(down, Q(1, period))
    IN [k \in 1..Len(series) |->
           IF ma_up[k] = NaN \/ ma_down[k] = NaN THEN NaN
           ELSE IF ma_down[k] = <<0, 1>>
           THEN (IF ma_up[k] = <<0, 1>> THEN <<0, 1>> ELSE <<100, 1>>)
           ELSE FSub(<<100, 1>>,
                     FDiv(<<100, 1>>, FAdd(<<1, 1>>, FDiv(ma_up[k], ma_down[k]))))]

\* series.rolling(window).std(), squared: the sample variance of each window,
\* NaN for a window of one element
RollingVar(series, window) ==
    LET ma == Sma(series, window)
        sq(k) == [j \in 1..Len(series) |->
                    FMul(FSub(series[j], ma[k]), FSub(series[j], ma[k]))]
    IN [k \in 1..Len(series) |->
           IF k < window \/ window < 2 THEN NaN
           ELSE FDiv(RollingSum(sq(k), k - window + 1, k), <<window - 1, 1>>)]

\* bbands.  sd is a square root: upper and lower are kept as mid and the
\* square of their distance num_std * sd from it, width as its square.
\* The closes are above 0, and so is ma
Bbands(series, window, num_std) ==
    LET ma == Sma(series, window)
        var == RollingVar(series, window)
        dist2 == [k \in 1..Len(series) |-> FMul(<<num_std * num_std, 1>>, var[k])]
    IN [upper |-> [k \in 1..Len(series) |-> [mid |-> ma[k], above2 |-> dist2[k]]],
        mid |-> ma,
        lower |-> [k \in 1..Len(series) |-> [mid |-> ma[k], below2 |-> dist2[k]]],
        width2 |-> [k \in 1..Len(series) |->
                      FDiv(FMul(<<4, 1>>, dist2[k]), FMul(ma[k], ma[k]))]]

\* adx
Adx(frame, period) ==
    LET len == Len(frame)
        plus_dm == [k \in 1..len |->
                      IF k > 1 /\ frame[k].high > frame[k - 1].high
                      THEN <<frame[k].high - frame[k - 1].high, 1>> ELSE <<0, 1>>]
        minus_dm == [k \in 1..len |->
                       IF k > 1 /\ frame[k].low < frame[k - 1].low
                       THEN <<frame[k - 1].low - frame[k].low, 1>> ELSE <<0, 1>>]
        tr == [k \in 1..len |-> <<TrueRange(frame, k - 1), 1>>]
        Sum(series, k) == IF k < period THEN NaN
                          ELSE RollingSum(series, k - period + 1, k)
        NotZero(x) == IF x = <<0, 1>> THEN NaN ELSE x
        plus_di == [k \in 1..len |->
                      FMul(<<100, 1>>, FDiv(Sum(plus_dm, k), NotZero(Sum(tr, k))))]
        minus_di == [k \in 1..len |->
                       FMul(<<100, 1>>, FDiv(Sum(minus_dm, k), NotZero(Sum(tr, k))))]
        dx == [k \in 1..len |->
                 FMul(FDiv(FAbs(FSub(plus_di[k], minus_di[k])),
                           NotZero(FAdd(plus_di[k], minus_di[k]))),
                      <<100, 1>>)]
    IN Sma(dx, period)

-----------------------------------------------------------------------------
(* The signals of strategies/: each returns whether to buy and whether to   *)
(* sell on the last bar of df.                                              *)

\* sma_crossover.signal
SmaCrossover(frame, short, long) ==
    LET close == Column(frame, "close")
        sma_s == Sma(close, short)
        sma_l == Sma(close, long)
        up(k) == IF FLess(<<0, 1>>, FSub(sma_s[k], sma_l[k])) THEN 1 ELSE 0
        len == Len(frame)
        last_cross == IF len > 1 THEN up(len) - up(len - 1) ELSE 0
    IN [buy |-> last_cross = 1, sell |-> last_cross = 0 - 1]

\* rsi_reversion.signal
RsiReversion(frame, low, high, period) ==
    LET val == Rsi(Column(frame, "close"), period)[Len(frame)]
    IN [buy |-> FLeq(val, <<low, 1>>), sell |-> FLeq(<<high, 1>>, val)]

\* bb_breakout.signal, with squeeze given in hundredths
BbBreakout(frame, window, num_std, squeeze) ==
    LET len == Len(frame)
        close == Column(frame, "close")[len]
        bands == Bbands(Column(frame, "close"), window, num_std)
        mid == bands.mid[len]
        gap2 == FMul(FSub(close, mid), FSub(close, mid))
        squeezed == FLess(bands.width2[len - 1], Q(squeeze * squeeze, 10000))
    IN [buy |-> /\ FLess(mid, close)
                /\ FLess(bands.upper[len].above2, gap2)
                /\ squeezed,
        sell |-> /\ FLess(close, mid)
                 /\ FLess(bands.lower[len].below2, gap2)
                 /\ squeezed]

\* what the wrapper of a strategy makes of its signal (api_server's strategy_func)
SignalName(result) ==
    IF result.buy THEN "BUY" ELSE IF result.sell THEN "SELL" ELSE "HOLD"

-----------------------------------------------------------------------------
(* The state machine *)

\* the variables that hold a run's inputs and the results of the finished runs
\* the variables of the API handler and of the indicators
\* the variables of the live loop and of the websocket manager
live == <<auto_enabled, loops, connections, callbacks, listeners>>

rest == <<data, historical_data, handler, df, other_df, applied, backtest_results, live>>

aux == <<tape, returned, rest>>

\* the variables that neither the engine nor the API handler writes
given == <<tape, returned, data, historical_data, df, other_df, applied, live>>

\* the handler before a request
NoRequestYet == [pc |-> "idle"]

\* no indicator or signal is applied yet
NotApplied == [name |-> "none"]

\* no button pressed, no stream subscribed
NotLive ==
    /\ auto_enabled = FALSE
    /\ loops = <<>>
    /\ connections = {}
    /\ callbacks = <<>>
    /\ listeners = <<>>

\* the initial values of the variables outside the engine
RestInit ==
    /\ data = <<>>
    /\ historical_data = <<>>
    /\ handler = NoRequestYet
    /\ df = <<>>
    /\ other_df = <<>>
    /\ applied = NotApplied
    /\ backtest_results = {}
    /\ NotLive

\* BacktestEngine.__init__
Init ==
    /\ config \in Configs
    /\ pc = "idle"
    /\ n = 0
    /\ i = 0
    /\ current_bar = NoBar
    /\ signal = "HOLD"
    /\ raised = FALSE
    /\ current_capital = config.initial_capital
    /\ open_positions = <<>>
    /\ trades = <<>>
    /\ equity_curve = <<>>
    /\ performance_metrics = None
    /\ saved = None
    /\ tape = <<>>
    /\ returned = <<>>
    /\ RestInit

\* a loop that starts one bar before the end of the warm-up
FirstIndexEarly == WarmUp - 1

\* range(50, len(data)): the index of the first bar of the loop
FirstIndex == WarmUp

\* run() with a reset that keeps the ledger
RunOnKeepingTrades(len) ==
    /\ pc \in {"idle", "done", "saved"}
    /\ n' = len
    /\ trades' = trades
    /\ equity_curve' = <<config.initial_capital>>
    /\ current_capital' = config.initial_capital
    /\ open_positions' = <<>>
    /\ i' = FirstIndex
    /\ pc' = "loop"
    /\ UNCHANGED <<config, current_bar, signal, raised, performance_metrics, saved>>

\* run() on a series of len bars: the state reset, up to the loop
RunOn(len) ==
    /\ pc \in {"idle", "done", "saved"}
    /\ n' = len
    /\ trades' = <<>>
    /\ equity_curve' = <<config.initial_capital>>
    /\ current_capital' = config.initial_capital
    /\ open_positions' = <<>>
    /\ i' = FirstIndex
    /\ pc' = "loop"
    /\ UNCHANGED <<config, current_bar, signal, raised, performance_metrics, saved>>

\* for i in range(50, len(data)): bar is the next bar
LoopNextOn(bar) ==
    /\ pc = "loop"
    /\ i < n
    /\ current_bar' = bar
    /\ pc' = StepOrder[1]
    /\ UNCHANGED <<config, n, i, signal, raised, current_capital, open_positions,
                   trades, equity_curve, performance_metrics, saved>>

\* self._check_exits(current_bar, current_time)
CheckExitsStep ==
    /\ pc = "exits"
    /\ Become(CheckExitsOf(config, Here, current_bar, i))
    /\ pc' = After(Pos("exits"))
    /\ i' = IF After(Pos("exits")) = "loop" THEN i + 1 ELSE i
    /\ UNCHANGED <<config, n, current_bar, signal, raised, equity_curve,
                   performance_metrics, saved>>

\* signal = strategy_func(historical_data) with this outcome, and "Process signal"
ProcessSignalOn(outcome) ==
    /\ pc = "signal"
    /\ raised' = (outcome = "RAISE")
    /\ signal' = SignalOf(outcome)
    /\ Become(ApplySignal(config, Here, SignalOf(outcome), current_bar, i))
    /\ pc' = After(Pos("signal"))
    /\ i' = IF After(Pos("signal")) = "loop" THEN i + 1 ELSE i
    /\ UNCHANGED <<config, n, current_bar, equity_curve, performance_metrics, saved>>

\* self._update_equity(current_bar)
UpdateEquityStep ==
    /\ pc = "equity"
    /\ equity_curve' = Append(equity_curve,
                              TotalEquity(current_capital, open_positions, current_bar))
    /\ pc' = After(Pos("equity"))
    /\ i' = IF After(Pos("equity")) = "loop" THEN i + 1 ELSE i
    /\ UNCHANGED <<config, n, current_bar, signal, raised, current_capital,
                   open_positions, trades, performance_metrics, saved>>

\* the loop is over
LoopEndStep ==
    /\ pc = "loop"
    /\ i >= n
    /\ pc' = "finish"
    /\ UNCHANGED <<config, n, i, current_bar, signal, raised, current_capital,
                   open_positions, trades, equity_curve, performance_metrics, saved>>

\* run() without the closing of the remaining positions
ClosesRemainingNever(open, len) == FALSE

\* whether run() closes the remaining positions
ClosesRemaining(open, len) == open # <<>> /\ len > 0

\* the engine state run() ends with
Closed ==
    IF ClosesRemaining(open_positions, n)
    THEN CloseAllPositions(config, Here, current_bar, n - 1, "end_of_data")
    ELSE Here

\* what run() returns
Result(metrics, closed, curve) ==
    [metrics |-> metrics, trades |-> closed, equity_curve |-> curve]

\* "Close any remaining positions", the metrics, and the return
FinishStep ==
    /\ pc = "finish"
    /\ Become(Closed)
    /\ performance_metrics' = Some(CalculateMetrics(config, Closed.closed, equity_curve))
    /\ pc' = "done"
    /\ UNCHANGED <<config, n, i, current_bar, signal, raised, equity_curve, saved>>

\* save_results: result_data, as handed to the insert
SaveResultsOn(days) ==
    /\ pc = "done"
    /\ saved' = Some(ResultData(config, Val(performance_metrics), trades,
                                equity_curve, days))
    /\ pc' = "saved"
    /\ UNCHANGED <<config, n, i, current_bar, signal, raised, current_capital,
                   open_positions, trades, equity_curve, performance_metrics>>

\* One run on any series with any signal function, then save_results.
Run ==
    /\ pc = "idle"
    /\ \E len \in DataLens : RunOn(len)
    /\ UNCHANGED aux

LoopNext ==
    /\ \E bar \in Bars(config) : LoopNextOn(bar)
    /\ UNCHANGED aux

CheckExits == CheckExitsStep /\ UNCHANGED aux

ProcessSignal ==
    /\ \E outcome \in Outcomes : ProcessSignalOn(outcome)
    /\ UNCHANGED aux

UpdateEquity == UpdateEquityStep /\ UNCHANGED aux

LoopEnd == LoopEndStep /\ UNCHANGED aux

Finish == FinishStep /\ UNCHANGED aux

\* save_results, with an insert that stores the row or raises: the exception
\* is caught and logged
SaveResults ==
    /\ \E days \in Days : SaveResultsOn(days)
    /\ \E inserted \in BOOLEAN :
          backtest_results' = IF inserted
                              THEN backtest_results \cup {Val(saved')}
                              ELSE backtest_results
    /\ UNCHANGED <<given, handler>>

Next ==
    \/ Run
    \/ LoopNext
    \/ CheckExits
    \/ ProcessSignal
    \/ UpdateEquity
    \/ LoopEnd
    \/ Finish
    \/ SaveResults

Spec == Init /\ [][Next]_vars

-----------------------------------------------------------------------------
(* A run on given inputs: the series and the signal function are on the     *)
(* tape, and each step reads its input from the tape.                       *)

\* the tape entry of the bar at index k of the data
Taped(k) == tape[k - WarmUp + 1]

RunTaped ==
    /\ pc = "idle"
    /\ RunOn(WarmUp + Len(tape))
    /\ UNCHANGED aux

LoopNextTaped ==
    /\ i < WarmUp + Len(tape)
    /\ LoopNextOn(Taped(i).bar)
    /\ UNCHANGED aux

ProcessSignalTaped ==
    /\ ProcessSignalOn(Taped(i).outcome)
    /\ UNCHANGED aux

\* the flat 60-bar series under the default configuration, with one BUY at
\* an index from the end of the warm-up to the last bar
ScenarioLen == WarmUp + 10

ScenarioInit ==
    /\ config = DefaultConfig
    /\ pc = "idle"
    /\ n = 0
    /\ i = 0
    /\ current_bar = NoBar
    /\ signal = "HOLD"
    /\ raised = FALSE
    /\ current_capital = config.initial_capital
    /\ open_positions = <<>>
    /\ trades = <<>>
    /\ equity_curve = <<>>
    /\ performance_metrics = None
    /\ saved = None
    /\ \E b \in WarmUp..(ScenarioLen - 1) :
          tape = TapeOf(DefaultConfig, FlatSeries(ScenarioLen), BuyOnceAt(ScenarioLen, b))
    /\ returned = <<>>
    /\ RestInit

ScenarioNext ==
    \/ RunTaped
    \/ LoopNextTaped
    \/ CheckExits
    \/ ProcessSignalTaped
    \/ UpdateEquity
    \/ LoopEnd
    \/ Finish

ScenarioSpec == ScenarioInit /\ [][ScenarioNext]_vars

-----------------------------------------------------------------------------
(* Two calls of run() on the same engine with the same series and the same  *)
(* signal function: the first call draws its inputs and records them on the *)
(* tape, the second reads them from the tape.                               *)

MaxReplayBars == 2

ReplayConfigs ==
    {cfg \in Configs : /\ cfg.commission_rate = 10
                       /\ cfg.slippage_rate = 5
                       /\ cfg.position_sizing = "percentage"}

ReplayLens == {0, WarmUp} \cup ((WarmUp + 1) .. (WarmUp + MaxReplayBars))

ReplayInit == Init /\ config \in ReplayConfigs

RunFirst ==
    /\ pc = "idle"
    /\ \E len \in ReplayLens : RunOn(len)
    /\ UNCHANGED aux

LoopNextRecorded ==
    /\ returned = <<>>
    /\ \E bar \in Bars(config) :
          /\ LoopNextOn(bar)
          /\ tape' = Append(tape, [bar |-> bar, outcome |-> "HOLD"])
    /\ UNCHANGED <<returned, rest>>

ProcessSignalRecorded ==
    /\ returned = <<>>
    /\ \E outcome \in Outcomes :
          /\ ProcessSignalOn(outcome)
          /\ tape' = [tape EXCEPT ![Len(tape)].outcome = outcome]
    /\ UNCHANGED <<returned, rest>>

FinishReturning ==
    /\ FinishStep
    /\ returned' = Append(returned,
                          Result(Val(performance_metrics'), trades', equity_curve))
    /\ UNCHANGED <<tape, rest>>

RunAgain ==
    /\ pc = "done"
    /\ Len(returned) = 1
    /\ RunOn(n)
    /\ UNCHANGED aux

LoopNextReplayed ==
    /\ returned # <<>>
    /\ pc = "loop"
    /\ i < n
    /\ LoopNextOn(Taped(i).bar)
    /\ UNCHANGED aux

ProcessSignalReplayed ==
    /\ returned # <<>>
    /\ pc = "signal"
    /\ ProcessSignalOn(Taped(i).outcome)
    /\ UNCHANGED aux

ReplayNext ==
    \/ RunFirst
    \/ LoopNextRecorded
    \/ CheckExits
    \/ ProcessSignalRecorded
    \/ UpdateEquity
    \/ LoopEnd
    \/ FinishReturning
    \/ RunAgain
    \/ LoopNextReplayed
    \/ ProcessSignalReplayed

ReplaySpec == ReplayInit /\ [][ReplayNext]_vars

-----------------------------------------------------------------------------
(* A run on a DataFrame that is given whole: the bars of the warm-up and    *)
(* the bars after it are all there when run() starts, _prepare_data adds    *)
(* the atr column over all of them, and the loop takes from it the bar and  *)
(* the window of each index.                                                *)

MaxWholeBars == 2

WholeConfigs ==
    {cfg \in Configs : /\ cfg.commission_rate = 10
                       /\ cfg.slippage_rate = 5
                       /\ cfg.position_sizing = "fixed"
                       /\ cfg.max_positions = 1}

\* the sequences of at most len elements of S
RECURSIVE SeqsUpTo(_, _)
SeqsUpTo(S, len) ==
    IF len = 0 THEN {<<>>}
    ELSE LET shorter == SeqsUpTo(S, len - 1)
         IN shorter \cup {Append(q, x) : q \in {r \in shorter : Len(r) = len - 1}, x \in S}

\* a flat warm-up followed by at most MaxWholeBars bars of any shape
WholeSeries == {FlatSeries(WarmUp) \o tail : tail \in SeqsUpTo(BarShapes, MaxWholeBars)}

\* the whole DataFrame in place of the window
WindowWhole(frame, k) == frame

\* data.iloc[:k+1]
Window(frame, k) == SubSeq(frame, 1, k + 1)

WholeInit ==
    /\ config \in WholeConfigs
    /\ pc = "idle"
    /\ n = 0
    /\ i = 0
    /\ current_bar = NoBar
    /\ signal = "HOLD"
    /\ raised = FALSE
    /\ current_capital = config.initial_capital
    /\ open_positions = <<>>
    /\ trades = <<>>
    /\ equity_curve = <<>>
    /\ performance_metrics = None
    /\ saved = None
    /\ tape = <<>>
    /\ returned = <<>>
    /\ data \in WholeSeries
    /\ historical_data = <<>>
    /\ handler = NoRequestYet
    /\ df = <<>>
    /\ other_df = <<>>
    /\ applied = NotApplied
    /\ backtest_results = {}
    /\ NotLive

RunWhole ==
    /\ pc = "idle"
    /\ RunOn(Len(data))
    /\ data' = PrepareData(config, data)
    /\ UNCHANGED <<tape, returned, historical_data, handler, df, other_df, applied, backtest_results, live>>

LoopNextWhole ==
    /\ pc = "loop"
    /\ i < n
    /\ LoopNextOn(data[i + 1])
    /\ historical_data' = Window(data, i)
    /\ UNCHANGED <<tape, returned, data, handler, df, other_df, applied, backtest_results, live>>

WholeNext ==
    \/ RunWhole
    \/ LoopNextWhole
    \/ CheckExits
    \/ ProcessSignal
    \/ UpdateEquity
    \/ LoopEnd
    \/ Finish

WholeSpec == WholeInit /\ [][WholeNext]_vars

-----------------------------------------------------------------------------
(* The indicators and the signals as functions: two DataFrames that share   *)
(* their first bar are given, and an indicator or a signal is applied once  *)
(* to both.                                                                 *)

MaxFrameLen == 3

\* bars of prices 10, 20 and 30, with low <= close <= high
FrameBars ==
    {[low |-> 20, high |-> 20, close |-> 20],
     [low |-> 20, high |-> 30, close |-> 30],
     [low |-> 10, high |-> 20, close |-> 10]}

Frames == SeqsUpTo(FrameBars, MaxFrameLen) \ {<<>>}

engine == <<config, pc, n, i, current_bar, signal, raised, current_capital,
            open_positions, trades, equity_curve, performance_metrics, saved,
            tape, returned, data, historical_data, handler, backtest_results,
            live>>

FramesInit ==
    /\ config = DefaultConfig
    /\ pc = "idle"
    /\ n = 0
    /\ i = 0
    /\ current_bar = NoBar
    /\ signal = "HOLD"
    /\ raised = FALSE
    /\ current_capital = config.initial_capital
    /\ open_positions = <<>>
    /\ trades = <<>>
    /\ equity_curve = <<>>
    /\ performance_metrics = None
    /\ saved = None
    /\ tape = <<>>
    /\ returned = <<>>
    /\ data = <<>>
    /\ historical_data = <<>>
    /\ handler = NoRequestYet
    /\ df \in Frames
    /\ other_df \in {f \in Frames : Len(f) <= Len(df) /\ f[1] = df[1]}
    /\ applied = NotApplied
    /\ backtest_results = {}
    /\ NotLive

\* one call of an indicator on each frame
Apply(name, arg, out, other_out) ==
    /\ applied = NotApplied
    /\ applied' = [name |-> name, arg |-> arg, out |-> out, other_out |-> other_out]
    /\ UNCHANGED <<engine, df, other_df>>

ApplySma ==
    \E window \in {1, 2, 3, 20} :
        Apply("sma", window, Sma(Column(df, "close"), window),
              Sma(Column(other_df, "close"), window))

ApplyEma ==
    \E span \in {2, 20} :
        Apply("ema", span, Ema(Column(df, "close"), span),
              Ema(Column(other_df, "close"), span))

ApplyRsi ==
    \E period \in {2, 14} :
        Apply("rsi", period, Rsi(Column(df, "close"), period),
              Rsi(Column(other_df, "close"), period))

ApplyBbands ==
    \E window \in {1, 2, 3, 20} :
        Apply("bbands", window, Bbands(Column(df, "close"), window, 2),
              Bbands(Column(other_df, "close"), window, 2))

ApplyAtr ==
    \E period \in {2, 14} :
        Apply("atr", period,
              [k \in 1..Len(df) |-> Atr(df, period, k - 1)],
              [k \in 1..Len(other_df) |-> Atr(other_df, period, k - 1)])

ApplyAdx ==
    \E period \in {2, 14} :
        Apply("adx", period, Adx(df, period), Adx(other_df, period))

\* the signals, with their default arguments and with windows within the
\* frames
ApplyStrategy ==
    \/ Apply("sma_crossover", <<20, 50>>, SmaCrossover(df, 20, 50),
             SmaCrossover(other_df, 20, 50))
    \/ Apply("rsi_reversion", <<30, 70, 14>>, RsiReversion(df, 30, 70, 14),
             RsiReversion(other_df, 30, 70, 14))
    \/ Apply("bb_breakout", <<20, 2, 6>>, BbBreakout(df, 20, 2, 6),
             BbBreakout(other_df, 20, 2, 6))
    \/ Apply("sma_crossover", <<1, 2>>, SmaCrossover(df, 1, 2),
             SmaCrossover(other_df, 1, 2))
    \/ Apply("rsi_reversion", <<30, 70, 2>>, RsiReversion(df, 30, 70, 2),
             RsiReversion(other_df, 30, 70, 2))
    \/ Apply("bb_breakout", <<2, 1, 200>>, BbBreakout(df, 2, 1, 200),
             BbBreakout(other_df, 2, 1, 200))

FramesNext ==
    \/ ApplySma
    \/ ApplyEma
    \/ ApplyRsi
    \/ ApplyBbands
    \/ ApplyAtr
    \/ ApplyAdx
    \/ ApplyStrategy

FramesSpec == FramesInit /\ [][FramesNext]_vars

-----------------------------------------------------------------------------
(* Runs with a position of 1% of the capital: the equity curve then moves   *)
(* by amounts far below one hundredth of a per cent of its peak.            *)

FineConfigs ==
    [initial_capital : {InitialCapital},
     commission_rate : {0, 10},
     slippage_rate : {0, 5},
     position_sizing : {"fixed"},
     position_size : {1},
     max_positions : {1, 2},
     stop_loss_pct : {StopLossPct},
     take_profit_pct : {TakeProfitPct},
     use_atr_stops : {FALSE},
     atr_stop_multiplier : {AtrStopMultiplier},
     atr_profit_multiplier : {AtrProfitMultiplier}]

FineInit ==
    /\ config \in FineConfigs
    /\ pc = "idle"
    /\ n = 0
    /\ i = 0
    /\ current_bar = NoBar
    /\ signal = "HOLD"
    /\ raised = FALSE
    /\ current_capital = config.initial_capital
    /\ open_positions = <<>>
    /\ trades = <<>>
    /\ equity_curve = <<>>
    /\ performance_metrics = None
    /\ saved = None
    /\ tape = <<>>
    /\ returned = <<>>
    /\ RestInit

FineSpec == FineInit /\ [][Next]_vars

-----------------------------------------------------------------------------
(* run_backtest of api_server, the handler of POST /api/backtest, with the  *)
(* engine it builds; and the engine used without it, by a caller of run()   *)
(* and save_results.                                                        *)

\* the BacktestConfig that run_backtest builds for a request that names no
\* option: slippage 0.001, the rest as the defaults
ApiConfig == [DefaultConfig EXCEPT !.slippage_rate = 10]

\* A request and what the exchange has for it: whether a required field is
\* missing, the days from start_date to end_date, the strategy_type, what
\* spot.klines returns (None, an empty frame or a frame) and how many of
\* its rows are within the dates
Requests ==
    [missing_field : BOOLEAN,
     days : Days,
     strategy_type : {"sma_crossover", "rsi_reversion", "bb_breakout", "unknown"},
     klines : {"none", "empty", "frame"},
     in_range : {0, 1} \cup DataLens]

Error(status, error) == [status |-> status, error |-> error]

\* the checks of run_backtest that only read the request
RejectionOfRequest(request) ==
    IF request.missing_field THEN Some(Error(400, "Missing required field"))
    ELSE IF request.days <= 0 THEN Some(Error(400, "End date must be after start date"))
    ELSE None

\* the checks of run_backtest before the engine is built, in their order:
\* None, or the error response
RejectionOf(request) ==
    IF request.missing_field THEN Some(Error(400, "Missing required field"))
    ELSE IF request.days <= 0 THEN Some(Error(400, "End date must be after start date"))
    ELSE IF request.klines # "frame" THEN Some(Error(500, "Failed to fetch historical data"))
    ELSE IF request.in_range = 0
    THEN Some(Error(400, "No data available for the specified date range"))
    ELSE IF request.strategy_type = "unknown" THEN Some(Error(400, "Unknown strategy type"))
    ELSE None

\* result_data of run_backtest (its numbers).  days is 365 here, so that
\* the annual return is the total return
ApiResultData(cfg, metrics, curve, days) ==
    [days |-> days,
     initial_capital |-> cfg.initial_capital,
     final_capital |-> ReportedFinalCapital(cfg, metrics),
     total_return |-> Get(metrics, "total_return", 0),
     annual_return |-> IF days > 0 THEN Get(metrics, "total_return", 0) ELSE 0,
     total_trades |-> Get(metrics, "total_trades", 0),
     win_rate |-> Get(metrics, "win_rate", 0),
     profit_factor |-> Get(metrics, "profit_factor", 0),
     sharpe_ratio |-> Get(metrics, "sharpe_ratio", "zero"),
     sortino_ratio |-> IF Len(curve) > 1
                          /\ Len(Downside(PctChange(curve))) > 0
                          /\ StdKind(Downside(PctChange(curve))) = "positive"
                       THEN "finite" ELSE "zero",
     max_drawdown |-> Get(metrics, "max_drawdown", 0)]

\* a response that tells of a failed insert
ResponseWhenInserted(result_data, inserted) ==
    IF inserted THEN [status |-> 200, success |-> TRUE, results |-> result_data]
    ELSE Error(500, "Failed to save to database")

\* the response of run_backtest after the run: a failed insert is logged
ResponseOf(result_data, inserted) ==
    [status |-> 200, success |-> TRUE, results |-> result_data]

ApiInit ==
    /\ config = ApiConfig
    /\ pc = "idle"
    /\ n = 0
    /\ i = 0
    /\ current_bar = NoBar
    /\ signal = "HOLD"
    /\ raised = FALSE
    /\ current_capital = config.initial_capital
    /\ open_positions = <<>>
    /\ trades = <<>>
    /\ equity_curve = <<>>
    /\ performance_metrics = None
    /\ saved = None
    /\ tape = <<>>
    /\ returned = <<>>
    /\ RestInit

\* run_backtest, up to the loop of engine.run: an error response, or the
\* engine is built and run() starts on the rows within the dates
RunBacktest ==
    /\ handler = NoRequestYet
    /\ pc = "idle"
    /\ \E request \in Requests :
          IF RejectionOf(request) # None
          THEN /\ handler' = [pc |-> "responded", request |-> request,
                              response |-> Val(RejectionOf(request))]
               /\ UNCHANGED <<config, pc, n, i, current_bar, signal, raised,
                              current_capital, open_positions, trades,
                              equity_curve, performance_metrics, saved>>
          ELSE /\ handler' = [pc |-> "running", request |-> request, response |-> None,
                              reported |-> None]
               /\ RunOn(request.in_range)
    /\ UNCHANGED <<given, backtest_results>>

\* "Get signal from strategy": run() calls strategy_func(historical_data),
\* and the strategy_func(data, index) of run_backtest takes two arguments, so
\* under the handler every call raises a TypeError before its body runs.
\* reported is what the body would return: BUY if strategy_module.signal
\* reports buy on the window, else SELL if it reports sell, else HOLD
ProcessSignalApi ==
    IF handler.pc = "running"
    THEN /\ ProcessSignalOn("RAISE")
         /\ \E reported \in {"BUY", "SELL", "HOLD"} :
               handler' = [handler EXCEPT !.reported = Some(reported)]
         /\ UNCHANGED <<given, backtest_results>>
    ELSE /\ \E outcome \in Outcomes : ProcessSignalOn(outcome)
         /\ UNCHANGED aux

\* run_backtest after engine.run: result_data, the insert, which stores the
\* row or raises, and the response
Respond ==
    /\ handler.pc = "running"
    /\ pc = "done"
    /\ \E inserted \in BOOLEAN :
          LET result_data == ApiResultData(config, Val(performance_metrics),
                                           equity_curve, handler.request.days)
          IN /\ handler' = [handler EXCEPT
                               !.pc = "responded",
                               !.response = ResponseOf(result_data, inserted)]
             /\ backtest_results' = IF inserted
                                    THEN backtest_results \cup {result_data}
                                    ELSE backtest_results
    /\ UNCHANGED <<config, pc, n, i, current_bar, signal, raised, current_capital,
                   open_positions, trades, equity_curve, performance_metrics,
                   saved, given>>

\* run() and save_results called on an engine that no handler built
Direct ==
    /\ handler = NoRequestYet
    /\ \/ Run
       \/ SaveResults

ApiNext ==
    \/ RunBacktest
    \/ Respond
    \/ Direct
    \/ LoopNext
    \/ CheckExits
    \/ ProcessSignalApi
    \/ UpdateEquity
    \/ LoopEnd
    \/ Finish

ApiSpec == ApiInit /\ [][ApiNext]_vars

-----------------------------------------------------------------------------
(* Runs with a position of 90% of the capital on a series in which the      *)
(* price can fall from 100 to 40 within one bar.                            *)

CrashConfigs ==
    [initial_capital : {InitialCapital},
     commission_rate : {0, 10},
     slippage_rate : {0, 5},
     position_sizing : {"fixed", "percentage"},
     position_size : {90},
     max_positions : {1},
     stop_loss_pct : {StopLossPct},
     take_profit_pct : {TakeProfitPct},
     use_atr_stops : {FALSE},
     atr_stop_multiplier : {AtrStopMultiplier},
     atr_profit_multiplier : {AtrProfitMultiplier}]

CrashInit ==
    /\ config \in CrashConfigs
    /\ pc = "idle"
    /\ n = 0
    /\ i = 0
    /\ current_bar = NoBar
    /\ signal = "HOLD"
    /\ raised = FALSE
    /\ current_capital = config.initial_capital
    /\ open_positions = <<>>
    /\ trades = <<>>
    /\ equity_curve = <<>>
    /\ performance_metrics = None
    /\ saved = None
    /\ tape = <<>>
    /\ returned = <<>>
    /\ RestInit

\* the next bar is flat at 100, or falls from 100 to 40
LoopNextCrash ==
    /\ \E bar \in {[low |-> 10000, high |-> 10000, close |-> 10000, atr |-> None],
                   [low |-> 4000, high |-> 10000, close |-> 4000, atr |-> None]} :
          LoopNextOn(bar)
    /\ UNCHANGED aux

CrashNext ==
    \/ Run
    \/ LoopNextCrash
    \/ CheckExits
    \/ ProcessSignal
    \/ UpdateEquity
    \/ LoopEnd
    \/ Finish
    \/ SaveResults

CrashSpec == CrashInit /\ [][CrashNext]_vars

-----------------------------------------------------------------------------
(* The live loop: core/trader.py run_auto_loop, started and stopped by the
   buttons of app.py through the flag of utils/state.py.  Prices and the ATR
   are in whole USDT, the ATR multipliers in tenths.  A task reads the flag
   only at the test of its while and writes only its own locals, so that an
   iteration, from the test to the sleep, is one step; a button handler is
   one step as well. *)

\* the run_auto_loop tasks that the model lets the buttons create
MaxLoops == 2

TradeUsdt == 50
TpAtr == 20
SlAtr == 15

\* the last close of the klines fetched in an iteration and their last ATR,
\* which is NaN (None) or a value
Klines == {[price |-> 25, atr |-> None],
           [price |-> 25, atr |-> Some(10)],
           [price |-> 50, atr |-> Some(10)]}

\* sma_crossover.signal on the klines: a cross up leaves the short average
\* above the long one, a cross down leaves it below or equal
Crossovers == {[buy |-> TRUE, sell |-> FALSE, trend_up |-> TRUE],
               [buy |-> FALSE, sell |-> TRUE, trend_up |-> FALSE],
               [buy |-> FALSE, sell |-> FALSE, trend_up |-> TRUE],
               [buy |-> FALSE, sell |-> FALSE, trend_up |-> FALSE]}

\* rsi_reversion.signal on the klines, as far as the loop reads it
Reversions == {[buy |-> TRUE], [buy |-> FALSE]}

\* the task as asyncio.create_task leaves it: nothing of the body has run
NewLoop ==
    [pc |-> "starting", position_qty |-> 0, entry_price |-> None,
     ordered |-> None, last_order |-> None, raised |-> "none",
     logged |-> "none"]

\* get_state()["auto_enabled"]
FlagAlwaysSet == TRUE

GetAutoFlag == auto_enabled

\* if position_qty == 0.0
FlatAlways(l) == TRUE

Flat(l) == l.position_qty = 0

\* except Exception as e: await send_log(...), then the sleep
CaughtFlattening(l, what) ==
    [l EXCEPT !.pc = "sleeping", !.raised = what, !.logged = "error",
              !.ordered = None, !.position_qty = 0, !.entry_price = None]

Caught(l, what) ==
    [l EXCEPT !.pc = "sleeping", !.raised = what, !.logged = "error",
              !.ordered = None]

\* an iteration that places no order and logs nothing
Idle(l) ==
    [l EXCEPT !.pc = "sleeping", !.raised = "none", !.logged = "none",
              !.ordered = None]

\* buy_market_quote returned: entry_price = price, position_qty = trade_usdt / price
Bought(l, price) ==
    [l EXCEPT !.pc = "sleeping", !.raised = "none", !.logged = "buy",
              !.ordered = Some("BUY"), !.last_order = Some("BUY"),
              !.entry_price = Some(price),
              !.position_qty = TradeUsdt \div price]

\* sell_market_qty returned: position_qty = 0.0, entry_price = None
Sold(l) ==
    [l EXCEPT !.pc = "sleeping", !.raised = "none", !.logged = "sell",
              !.ordered = Some("SELL"), !.last_order = Some("SELL"),
              !.entry_price = None, !.position_qty = 0]

\* price >= entry_price + tp_atr * _atr; a comparison with NaN is false
TakeProfitHit(l, price, atr) ==
    /\ atr # None
    /\ 10 * price >= 10 * Val(l.entry_price) + TpAtr * Val(atr)

\* price <= entry_price - sl_atr * _atr
StopLossHit(l, price, atr) ==
    /\ atr # None
    /\ 10 * price <= 10 * Val(l.entry_price) - SlAtr * Val(atr)

\* the body of the try once the klines and the signals are there; the order
\* call, if one is made, returns or raises
Trade(l, price, atr, sig1, sig2, order_raises) ==
    IF Flat(l)
    THEN IF sig1.buy \/ (sig2.buy /\ sig1.trend_up)
         THEN IF order_raises THEN Caught(l, "order") ELSE Bought(l, price)
         ELSE Idle(l)
    ELSE IF TakeProfitHit(l, price, atr)
         THEN IF order_raises THEN Caught(l, "order") ELSE Sold(l)
         ELSE IF StopLossHit(l, price, atr) \/ sig1.sell
              THEN IF order_raises THEN Caught(l, "order") ELSE Sold(l)
              ELSE Idle(l)

\* on_button, "auto_on": nothing when the flag is set, else set_state and
\* create_task
AutoOn ==
    /\ Len(loops) < MaxLoops
    /\ IF auto_enabled
       THEN UNCHANGED <<auto_enabled, loops>>
       ELSE /\ auto_enabled' = TRUE
            /\ loops' = Append(loops, NewLoop)

\* on_button, "auto_off": set_state(auto_enabled=False)
AutoOff ==
    /\ auto_enabled' = FALSE
    /\ UNCHANGED loops

\* run_auto_loop up to the loop: the start log and the two locals
Start(t) ==
    /\ loops[t].pc = "starting"
    /\ loops' = [loops EXCEPT ![t] = [@ EXCEPT !.pc = "ready", !.logged = "start"]]
    /\ UNCHANGED auto_enabled

\* while get_auto_flag(): one iteration
Iterate(t) ==
    /\ loops[t].pc = "ready"
    /\ GetAutoFlag
    /\ \/ loops' = [loops EXCEPT ![t] = Caught(@, "fetch_klines")]
       \/ loops' = [loops EXCEPT ![t] = Caught(@, "signal")]
       \/ \E klines \in Klines, sig1 \in Crossovers, sig2 \in Reversions,
             order_raises \in BOOLEAN :
             loops' = [loops EXCEPT ![t] =
                          Trade(@, klines.price, klines.atr, sig1, sig2,
                                order_raises)]
    /\ UNCHANGED auto_enabled

\* await asyncio.sleep(5) is over
Wake(t) ==
    /\ loops[t].pc = "sleeping"
    /\ loops' = [loops EXCEPT ![t] = [@ EXCEPT !.pc = "ready"]]
    /\ UNCHANGED auto_enabled

\* the flag is false at the test of the while: the end log, and the task is over
Terminate(t) ==
    /\ loops[t].pc = "ready"
    /\ ~GetAutoFlag
    /\ loops' = [loops EXCEPT ![t] = [@ EXCEPT !.pc = "ended", !.logged = "end",
                                               !.ordered = None]]
    /\ UNCHANGED auto_enabled

\* a step of one of the tasks
LoopStep == \E t \in 1..Len(loops) : Start(t) \/ Iterate(t) \/ Wake(t) \/ Terminate(t)

\* the variables the live loop leaves alone
beside == <<config, pc, n, i, current_bar, signal, raised, current_capital,
            open_positions, trades, equity_curve, performance_metrics, saved,
            tape, returned, data, historical_data, handler, df, other_df,
            applied, backtest_results, connections, callbacks, listeners>>

LiveInit ==
    /\ config = DefaultConfig
    /\ pc = "idle"
    /\ n = 0
    /\ i = 0
    /\ current_bar = NoBar
    /\ signal = "HOLD"
    /\ raised = FALSE
    /\ current_capital = config.initial_capital
    /\ open_positions = <<>>
    /\ trades = <<>>
    /\ equity_curve = <<>>
    /\ performance_metrics = None
    /\ saved = None
    /\ tape = <<>>
    /\ returned = <<>>
    /\ RestInit

PressOn == AutoOn /\ UNCHANGED beside

PressOff == AutoOff /\ UNCHANGED beside

RunLoops == LoopStep /\ UNCHANGED beside

LiveNext ==
    \/ PressOn
    \/ PressOff
    \/ RunLoops

LiveSpec == LiveInit /\ [][LiveNext]_vars

\* the event loop runs every task that is ready to run
FairLiveSpec == LiveSpec /\ WF_vars(RunLoops)

-----------------------------------------------------------------------------
(* The websocket manager: core/websocket_manager.py.  A stream has a list of
   callbacks and, once subscribed, a task that connects, listens and
   reconnects.  A task is switched out only at an await: the connect, the
   wait for a message and the sleep before a new attempt. *)

\* the _connect_and_listen tasks that the model lets _subscribe create
MaxListeners == 2

\* the callbacks that the model lets one stream collect
MaxCallbacks == 2

MaxReconnectAttempts == 10

Streams == {"btcusdt@ticker", "ethusdt@kline_1m"}

\* the task as asyncio.create_task leaves it, with reconnect_attempts = 0;
\* dropped counts the exceptions since the last connection that succeeded
NewListener(stream) ==
    [stream |-> stream, pc |-> "connecting", reconnect_attempts |-> 0,
     dropped |-> 0]

\* del self.callbacks[stream_key]
Without(f, key) == [k \in DOMAIN f \ {key} |-> f[k]]

\* self.callbacks[stream] = [callback], or .append(callback)
WithCallback(f, key, callback) ==
    [k \in DOMAIN f \cup {key} |->
        IF k # key THEN f[k]
        ELSE IF key \in DOMAIN f THEN Append(f[key], callback)
        ELSE <<callback>>]

\* _subscribe
Subscribe(stream, callback) ==
    IF stream \in DOMAIN callbacks
    THEN /\ Len(callbacks[stream]) < MaxCallbacks
         /\ callbacks' = WithCallback(callbacks, stream, callback)
         /\ UNCHANGED <<connections, listeners>>
    ELSE /\ Len(listeners) < MaxListeners
         /\ callbacks' = WithCallback(callbacks, stream, callback)
         /\ listeners' = Append(listeners, NewListener(stream))
         /\ UNCHANGED connections

\* reconnect_attempts = 0  # Reset on successful connection
KeptOnConnect(l) == l.reconnect_attempts

ResetOnConnect(l) == 0

\* websockets.connect returned: self.connections[stream_key] = websocket
Connected(t) ==
    /\ listeners[t].pc = "connecting"
    /\ connections' = connections \cup {listeners[t].stream}
    /\ listeners' = [listeners EXCEPT ![t] =
                        [@ EXCEPT !.pc = "listening",
                                  !.reconnect_attempts = ResetOnConnect(listeners[t]),
                                  !.dropped = 0]]
    /\ UNCHANGED callbacks

\* the clean up after the loop, and the task is over
GiveUp(t, l) ==
    /\ listeners' = [listeners EXCEPT ![t] = [l EXCEPT !.pc = "done"]]
    /\ connections' = connections \ {listeners[t].stream}
    /\ callbacks' = Without(callbacks, listeners[t].stream)

\* the connect or the connection raises, ConnectionClosed or another
\* exception: one more attempt and the sleep; ConnectionClosed on the last
\* attempt breaks out of the loop
Fails(t, closed) ==
    /\ listeners[t].pc \in {"connecting", "listening"}
    /\ LET caught == [listeners[t] EXCEPT !.reconnect_attempts = @ + 1,
                                           !.dropped = @ + 1]
       IN IF closed /\ caught.reconnect_attempts >= MaxReconnectAttempts
          THEN GiveUp(t, caught)
          ELSE /\ listeners' = [listeners EXCEPT ![t] =
                                   [caught EXCEPT !.pc = "backoff"]]
               /\ UNCHANGED <<connections, callbacks>>

\* the server closes the connection normally: async for ends, and the while
\* connects again
Ends(t) ==
    /\ listeners[t].pc = "listening"
    /\ IF listeners[t].reconnect_attempts < MaxReconnectAttempts
       THEN /\ listeners' = [listeners EXCEPT ![t] = [@ EXCEPT !.pc = "connecting"]]
            /\ UNCHANGED <<connections, callbacks>>
       ELSE GiveUp(t, listeners[t])

\* the sleep is over: the test of the while, then a new connect or the clean up
Retry(t) ==
    /\ listeners[t].pc = "backoff"
    /\ IF listeners[t].reconnect_attempts < MaxReconnectAttempts
       THEN /\ listeners' = [listeners EXCEPT ![t] = [@ EXCEPT !.pc = "connecting"]]
            /\ UNCHANGED <<connections, callbacks>>
       ELSE GiveUp(t, listeners[t])

\* the variables the websocket manager leaves alone
apart == <<config, pc, n, i, current_bar, signal, raised, current_capital,
           open_positions, trades, equity_curve, performance_metrics, saved,
           tape, returned, data, historical_data, handler, df, other_df,
           applied, backtest_results, auto_enabled, loops>>

\* a subscribe_* call
SubscribeStream ==
    /\ \E stream \in Streams, callback \in {"on_update"} : Subscribe(stream, callback)
    /\ UNCHANGED apart

\* a step of one of the _connect_and_listen tasks
Listen ==
    /\ \E t \in 1..Len(listeners) :
          \/ Connected(t)
          \/ \E closed \in BOOLEAN : Fails(t, closed)
          \/ Ends(t)
          \/ Retry(t)
    /\ UNCHANGED apart

SocketNext ==
    \/ SubscribeStream
    \/ Listen

SocketSpec == LiveInit /\ [][SocketNext]_vars

-----------------------------------------------------------------------------
(* Properties *)

\* the trades a step moves into the ledger
NewlyClosed == SubSeq(trades', Len(trades) + 1, Len(trades'))

\* the trades a step opens
NewlyOpened == SelectSeq(open_positions', LAMBDA t : t \notin Range(open_positions))

RECURSIVE EntryNotional(_)
EntryNotional(s) ==
    IF s = <<>> THEN 0
    ELSE Head(s).quantity * Head(s).entry_price + EntryNotional(Tail(s))

RECURSIVE ExitNotional(_)
ExitNotional(s) ==
    IF s = <<>> THEN 0
    ELSE Head(s).quantity * Val(Head(s).exit_price) + ExitNotional(Tail(s))

ExitUnset(t) == t.exit_price = None /\ t.exit_time = None /\ t.exit_reason = None
ExitSet(t) == t.exit_price # None /\ t.exit_time # None /\ t.exit_reason # None

\* both the stop price and the target price of trade t are breached by the bar
BothBreached(t, bar) ==
    /\ t.side = "BUY"
    /\ bar.low <= StopPrice(config, t, bar)
    /\ bar.high >= ProfitPrice(config, t, bar)

\* C1. Trade atomicity: every Trade in open_positions and in the closed ledger
\* (which is the ledger run() returns) has exit_price, exit_time and exit_reason
\* all unset or all set.
TradeAtomicity ==
    \A t \in Range(open_positions) \cup Range(trades) : ExitUnset(t) \/ ExitSet(t)

\* C1 witness: a closed Trade in the ledger beside a Trade that is still open.
TradeAtomicityWitness ==
    /\ \E t \in Range(trades) : ExitSet(t)
    /\ \E t \in Range(open_positions) : ExitUnset(t)

\* C2. Stop precedence: right after the exit check of bar i, no open Trade is
\* left whose stop and target are both breached by the bar, and every Trade the
\* check closed on such a bar has exit reason stop_loss, whichever rule (ATR or
\* fixed percentage) set the prices.
StopPrecedence ==
    pc = "signal" =>
        /\ \A t \in Range(open_positions) : ~BothBreached(t, current_bar)
        /\ \A t \in Range(trades) :
              (t.exit_time = Some(i) /\ BothBreached(t, current_bar))
                  => t.exit_reason = Some("stop_loss")

\* C2 witness: a Trade closed as stop_loss on a bar that breaches both prices
\* under the ATR rule, with the fixed-percentage prices not both breached.
StopPrecedenceWitness ==
    /\ pc = "signal"
    /\ UsesAtr(config, current_bar)
    /\ \E t \in Range(trades) :
          /\ t.exit_time = Some(i)
          /\ BothBreached(t, current_bar)
          /\ t.exit_reason = Some("stop_loss")

\* C3. Every Trade the exit check closes with reason stop_loss has an exit
\* price equal to the stop price computed for that bar.
StopLossAtStopPrice ==
    pc = "signal" =>
        \A t \in Range(trades) :
            (t.exit_time = Some(i) /\ t.exit_reason = Some("stop_loss"))
                => t.exit_price = Some(StopPrice(config, t, current_bar))

\* C4. Capital conservation: with commission_rate = 0 and slippage_rate = 0,
\* every step of a run changes cash by exactly the exit notional of the trades
\* it closes minus the entry notional of the trades it opens.
CapitalConservation ==
    [][(/\ pc \notin {"idle", "done"}
        /\ config.commission_rate = 0
        /\ config.slippage_rate = 0)
       => current_capital' - current_capital
              = ExitNotional(NewlyClosed) - EntryNotional(NewlyOpened)]_vars

\* C5. End-of-data force close: the step that ends run() leaves open_positions
\* empty, and every Trade still open after the last bar is then in the ledger
\* with reason end_of_data, the last bar's timestamp as exit time and the last
\* bar's close less slippage as exit price.
EndOfDataForceClose ==
    [][pc = "finish" =>
         /\ pc' = "done"
         /\ open_positions' = <<>>
         /\ \A t \in Range(open_positions) :
               \E c \in Range(NewlyClosed) :
                  /\ c.entry_time = t.entry_time
                  /\ c.exit_reason = Some("end_of_data")
                  /\ c.exit_time = Some(n - 1)
                  /\ c.exit_price = Some(ExitPrice(config, t.side, current_bar))]_vars

\* C5 witness: run() has returned and a Trade in the ledger was force-closed.
EndOfDataForceCloseWitness ==
    /\ pc = "done"
    /\ open_positions = <<>>
    /\ \E t \in Range(trades) :
          t.exit_reason = Some("end_of_data") /\ t.exit_time = Some(n - 1)

\* the capital _open_position would require for a BUY on the current bar
RequiredNow ==
    RequiredCapital(config,
                    CalculatePositionSize(config, current_capital, current_bar.close),
                    EntryPrice(config, "BUY", current_bar))

\* C6. Strategy errors are recovered per bar: a bar on which the signal
\* function raises is treated as HOLD (cash, open positions and ledger are left
\* as the exit check left them), the equity mark follows, and the run goes on to
\* the end: when it returns, every bar from the warm-up on has its equity point.
StrategyErrorIsHold ==
    [][/\ (pc = "signal" /\ raised')
            => /\ signal' = "HOLD"
               /\ UNCHANGED <<current_capital, open_positions, trades>>
               /\ pc' = "equity"
       /\ (pc = "equity" /\ raised)
            => /\ Len(equity_curve') = Len(equity_curve) + 1
               /\ pc' = "loop"
               /\ i' = i + 1
       /\ pc' = "done"
            => Len(equity_curve') = 1 + (IF n > WarmUp THEN n - WarmUp ELSE 0)]_vars

\* C6 witness: the signal function has raised on a bar with a position open,
\* and the position is still open at the equity mark.
StrategyErrorIsHoldWitness ==
    /\ pc = "equity"
    /\ raised
    /\ signal = "HOLD"
    /\ open_positions # <<>>

\* C7. Position bound: the number of open Trades never exceeds
\* config.max_positions, and a BUY received while the count equals
\* max_positions leaves cash, open_positions and the ledger unchanged.
PositionBound ==
    [][/\ Len(open_positions') <= config.max_positions
       /\ (/\ pc = "signal"
           /\ signal' = "BUY"
           /\ Len(open_positions) = config.max_positions)
            => UNCHANGED <<current_capital, open_positions, trades>>]_vars

\* C7 witness: a BUY was received on a bar with max_positions Trades open, all
\* of them opened on earlier bars.
PositionBoundWitness ==
    /\ pc = "equity"
    /\ signal = "BUY"
    /\ Len(open_positions) = config.max_positions
    /\ \A t \in Range(open_positions) : t.entry_time < i

\* C8. Insufficient-cash rejection: a BUY below the position bound whose
\* required capital exceeds the cash creates no Trade and leaves cash,
\* open_positions and the ledger unchanged, and the run goes on to the equity
\* mark.
InsufficientCashRejected ==
    [][(/\ pc = "signal"
        /\ signal' = "BUY"
        /\ Len(open_positions) < config.max_positions
        /\ RequiredNow > current_capital)
       => /\ UNCHANGED <<current_capital, open_positions, trades>>
          /\ pc' = "equity"]_vars

\* C8 witness: a BUY below the position bound was rejected for lack of cash.
InsufficientCashRejectedWitness ==
    /\ pc = "equity"
    /\ signal = "BUY"
    /\ Len(open_positions) < config.max_positions
    /\ \A t \in Range(open_positions) : t.entry_time < i
    /\ CalculatePositionSize(config, current_capital, current_bar.close) > 0
    /\ RequiredNow > current_capital

\* C9. On a SELL signal every open position is closed on that bar with reason
\* signal and open_positions is empty afterwards; on a SELL signal with no open
\* position cash, open_positions and the ledger are unchanged.
SellClosesAll ==
    [][(pc = "signal" /\ signal' = "SELL") =>
         IF open_positions # <<>>
         THEN /\ open_positions' = <<>>
              /\ Len(NewlyClosed) = Len(open_positions)
              /\ \A k \in 1..Len(open_positions) :
                    /\ NewlyClosed[k].entry_time = open_positions[k].entry_time
                    /\ NewlyClosed[k].exit_reason = Some("signal")
                    /\ NewlyClosed[k].exit_time = Some(i)
         ELSE UNCHANGED <<current_capital, open_positions, trades>>]_vars

\* C9 witness: a SELL signal has closed two open positions on one bar.
SellClosesAllWitness ==
    /\ pc = "equity"
    /\ signal = "SELL"
    /\ open_positions = <<>>
    /\ \E t, u \in Range(trades) :
          /\ t.entry_time # u.entry_time
          /\ t.exit_time = Some(i) /\ t.exit_reason = Some("signal")
          /\ u.exit_time = Some(i) /\ u.exit_reason = Some("signal")

\* C10. Per-bar step ordering: on every bar the exit check comes first, then
\* the signal, then the equity mark, and bar i is started only when the marks of
\* all bars before it are recorded; a Trade closed by stop_loss or take_profit
\* was opened on an earlier bar; and a BUY on a bar whose exit check closed a
\* Trade is not held back by the position bound.
StepOrdering ==
    [][/\ (pc = "loop" /\ pc' # "finish") => pc' = "exits"
       /\ pc = "exits" => pc' = "signal" /\ i' = i
       /\ pc = "signal" => pc' = "equity" /\ i' = i
       /\ pc = "equity" =>
             /\ pc' = "loop"
             /\ i' = i + 1
             /\ Len(equity_curve') = Len(equity_curve) + 1
       /\ pc' \in {"loop", "exits", "signal", "equity"}
             => Len(equity_curve') = i' - WarmUp + 1
       /\ \A t \in Range(trades') :
             t.exit_reason \in {Some("stop_loss"), Some("take_profit")}
                 => Val(t.exit_time) > t.entry_time
       /\ (/\ pc = "signal"
           /\ signal' = "BUY"
           /\ \E t \in Range(trades) : t.exit_time = Some(i))
            => Become(OpenPosition(config, Here, "BUY", current_bar, i))]_vars

\* C10 witness: with max_positions = 1, the exit check of bar i closed a Trade
\* and a BUY on the same bar opened another.
StepOrderingWitness ==
    /\ pc = "equity"
    /\ config.max_positions = 1
    /\ \E t \in Range(trades) :
          /\ t.exit_time = Some(i)
          /\ t.exit_reason \in {Some("stop_loss"), Some("take_profit")}
          /\ t.entry_time < i
    /\ \E t \in Range(open_positions) : t.entry_time = i

\* the mark-to-market value of the open positions at a close
RECURSIVE MarkToMarket(_, _)
MarkToMarket(open, close) ==
    IF open = <<>> THEN 0
    ELSE Head(open).quantity * close + MarkToMarket(Tail(open), close)

\* C11. Equity mark: the curve starts with initial_capital, has one more point
\* per processed bar, and the point recorded for a bar equals cash plus, for
\* each open Trade, quantity times the bar's close.
EquityMark ==
    /\ pc \in {"loop", "exits", "signal", "equity"}
          => /\ equity_curve[1] = config.initial_capital
             /\ Len(equity_curve) = i - WarmUp + 1
    /\ (pc = "loop" /\ i > WarmUp)
          => equity_curve[Len(equity_curve)]
                = current_capital + MarkToMarket(open_positions, current_bar.close)

\* the metrics of the finished run
Metrics == Val(performance_metrics)

\* C12. Reported final capital is fully realized: when run() has returned,
\* no position is open, the final_capital of the metrics equals the engine's
\* cash and the total_return is the return of that cash on initial_capital.
FinalCapitalRealized ==
    (pc = "done" /\ "final_capital" \in DOMAIN Metrics)
        => /\ open_positions = <<>>
           /\ Metrics.final_capital = current_capital
           /\ Metrics.total_return
                 = Ratio10000(current_capital - config.initial_capital,
                              config.initial_capital)

\* the index at which the taped signal function returns BUY
BuyIndex == CHOOSE b \in WarmUp..(WarmUp + Len(tape) - 1) : Taped(b).outcome = "BUY"

\* C13. End-to-end scenario: default configuration, 60 bars at 100, one BUY
\* at bar 51 and no SELL: the run yields exactly one Trade, closed with reason
\* end_of_data, entered at 100 * (1 + slippage_rate), with a negative PnL made
\* of the slippage of both sides and the two commissions, and a max drawdown
\* above 0.
FlatScenario ==
    (pc = "done" /\ BuyIndex = 51)
        => /\ Len(trades) = 1
           /\ trades[1].exit_reason = Some("end_of_data")
           /\ trades[1].entry_price = 10000 + Bp(10000, config.slippage_rate)
           /\ Val(trades[1].pnl) < 0
           /\ Val(trades[1].pnl)
                 = 0 - (trades[1].quantity * 2 * Bp(10000, config.slippage_rate)
                        + trades[1].commission)
           /\ trades[1].commission
                 = Bp(trades[1].quantity * trades[1].entry_price, config.commission_rate)
                   + Bp(trades[1].quantity * Val(trades[1].exit_price),
                        config.commission_rate)
           /\ Metrics.max_drawdown > 0

\* C14. Idempotence / state reset: the second call of run() on the same
\* engine, series and signal function returns the same ledger, equity curve
\* and metrics as the first, and starts from no cash, open position, closed
\* trade or equity point of the first.
Idempotence ==
    /\ Len(returned) = 2 => returned[2] = returned[1]
    /\ (Len(returned) = 1 /\ pc = "loop" /\ i = WarmUp)
          => /\ trades = <<>>
             /\ open_positions = <<>>
             /\ current_capital = config.initial_capital
             /\ equity_curve = <<config.initial_capital>>

\* C14 witness: both calls have returned, and the first one closed a Trade,
\* moved the cash and recorded equity points.
IdempotenceWitness ==
    /\ Len(returned) = 2
    /\ returned[1].trades # <<>>
    /\ Len(returned[1].equity_curve) > 2
    /\ current_capital # config.initial_capital

\* the signal function returned HOLD on every bar of the run
AlwaysHold == \A k \in 1..Len(tape) : tape[k].outcome = "HOLD"

\* C15. Zero-trade default: a run whose signal function returns HOLD on every
\* bar produces total_trades = 0, a win rate, profit factor, Sharpe ratio, max
\* drawdown and total return of 0, an equity curve constant at
\* initial_capital, and a reported final capital equal to initial_capital.
ZeroTradeDefault ==
    (pc = "done" /\ AlwaysHold)
        => /\ trades = <<>>
           /\ Metrics.total_trades = 0
           /\ Metrics.win_rate = 0
           /\ Metrics.profit_factor = 0
           /\ Metrics.sharpe_ratio = "zero"
           /\ Metrics.max_drawdown = 0
           /\ Metrics.total_return = 0
           /\ \A k \in 1..Len(equity_curve) : equity_curve[k] = config.initial_capital
           /\ ReportedFinalCapital(config, Metrics) = config.initial_capital

\* C15 witness: a run over two bars of different closes, with HOLD on both,
\* has returned.
ZeroTradeDefaultWitness ==
    /\ pc = "done"
    /\ AlwaysHold
    /\ Len(tape) >= 2
    /\ tape[1].bar.close # tape[2].bar.close
    /\ Len(equity_curve) = Len(tape) + 1

\* the sum of the positive PnLs of a ledger
RECURSIVE Gains(_)
Gains(s) ==
    IF s = <<>> THEN 0
    ELSE (IF Val(Head(s).pnl) > 0 THEN Val(Head(s).pnl) ELSE 0) + Gains(Tail(s))

\* the sum of the negative PnLs of a ledger, as a positive amount
RECURSIVE Losses(_)
Losses(s) ==
    IF s = <<>> THEN 0
    ELSE (IF Val(Head(s).pnl) < 0 THEN 0 - Val(Head(s).pnl) ELSE 0) + Losses(Tail(s))

\* C16. Profit factor fallback: for a ledger with trades, the reported profit
\* factor is 0 whenever the gross loss is 0, whatever the gross profit, and
\* gross profit / |gross loss| otherwise.
ProfitFactorFallback ==
    (pc = "done" /\ trades # <<>>)
        => Metrics.profit_factor
              = IF Losses(trades) = 0 THEN 0
                ELSE (Gains(trades) * 100) \div Losses(trades)

\* C17. Numerical degeneracies resolve to 0: the Sharpe ratio is 0 when the
\* deviation of the returns is 0 or undefined, the Sortino ratio is 0 when
\* the deviation of the negative returns is 0 or undefined (no negative
\* return, or exactly one), the annualized return is 0 when the day count is
\* at most 0, and no ratio is undefined.
DegeneraciesAreZero ==
    /\ pc \in {"done", "saved"}
          => /\ StdKind(PctChange(equity_curve)) # "positive"
                   => Metrics.sharpe_ratio = "zero"
             /\ Metrics.sharpe_ratio # "nan"
    /\ pc = "saved"
          => /\ StdKind(Downside(PctChange(equity_curve))) # "positive"
                   => Val(saved).sortino_ratio = "zero"
             /\ Val(saved).sortino_ratio # "nan"
             /\ Val(saved).days <= 0 => Val(saved).annual_return = 0

\* the highest value of a curve up to point k
PeakAt(curve, k) == Max({curve[j] : j \in 1..k})

\* (running peak - equity) / running peak * 100 at point k, to two decimals
DrawdownAt(curve, k) == Ratio10000(PeakAt(curve, k) - curve[k], PeakAt(curve, k))

\* no point of the curve is below an earlier one
NeverFalls(curve) ==
    \A j, k \in 1..Len(curve) : j < k => curve[k] >= curve[j]

\* C18 (as stated). Max drawdown: the reported max drawdown is the largest
\* (running peak - equity) / running peak * 100 over the points of the curve,
\* lies in [0, 100], and is 0 exactly when the curve never falls below an
\* earlier value.
MaxDrawdownExact ==
    pc = "done"
        => /\ Metrics.max_drawdown
                 = Max({DrawdownAt(equity_curve, k) : k \in 1..Len(equity_curve)})
           /\ Metrics.max_drawdown \in 0..10000
           /\ Metrics.max_drawdown = 0 <=> NeverFalls(equity_curve)

\* C18 (amended). Max drawdown: the reported max drawdown is the largest
\* (running peak - equity) / running peak * 100 over the points of the curve,
\* rounded to two decimals; it lies in [0, 100] and is 0 whenever the curve
\* never falls below an earlier value.
MaxDrawdownRounded ==
    pc = "done"
        => /\ Metrics.max_drawdown
                 = Max({DrawdownAt(equity_curve, k) : k \in 1..Len(equity_curve)})
           /\ Metrics.max_drawdown \in 0..10000
           /\ NeverFalls(equity_curve) => Metrics.max_drawdown = 0

\* C18 witness: a run has returned whose curve rose above its start and then
\* fell, with a reported max drawdown above 0.
MaxDrawdownWitness ==
    /\ pc = "done"
    /\ \E j, k \in 1..Len(equity_curve) :
          /\ j < k
          /\ equity_curve[j] > equity_curve[1]
          /\ equity_curve[k] < equity_curve[j]
    /\ Metrics.max_drawdown > 0

\* C19. Warm-up: no step of the loop (exit check, signal call, equity point)
\* acts on one of the first 50 bars, no Trade is opened or closed there, and
\* a series of 50 bars or fewer yields an empty ledger and an equity curve
\* that holds only the initial capital.
WarmUpSkipped ==
    /\ pc \in {"exits", "signal", "equity"} => i >= WarmUp
    /\ \A t \in Range(trades) \cup Range(open_positions) :
          /\ t.entry_time >= WarmUp
          /\ ExitSet(t) => Val(t.exit_time) >= WarmUp
    /\ (pc \in {"finish", "done", "saved"} /\ n <= WarmUp)
          => /\ trades = <<>>
             /\ open_positions = <<>>
             /\ equity_curve = <<config.initial_capital>>

\* C19 witness: a run on a series of exactly 50 bars has returned.
WarmUpSkippedWitness ==
    /\ pc = "done"
    /\ n = WarmUp
    /\ trades = <<>>
    /\ equity_curve = <<config.initial_capital>>

\* C20. Empty input: on a series with no bar, run() touches no bar (no step
\* of the loop, no closing at the last bar) and returns an empty ledger and
\* metrics that are all 0.
EmptyInput ==
    n = 0
        => /\ pc \notin {"exits", "signal", "equity"}
           /\ pc = "finish" => ~ClosesRemaining(open_positions, n)
           /\ pc = "done"
                 => /\ trades = <<>>
                    /\ DOMAIN Metrics = {"total_return", "total_trades", "win_rate",
                                         "profit_factor", "sharpe_ratio", "max_drawdown"}
                    /\ \A key \in DOMAIN Metrics \ {"sharpe_ratio"} : Metrics[key] = 0
                    /\ Metrics.sharpe_ratio = "zero"

\* C20 witness: a run on the empty series has returned.
EmptyInputWitness ==
    /\ pc = "done"
    /\ n = 0
    /\ performance_metrics # None
    /\ equity_curve = <<config.initial_capital>>

\* what C28 says of one step of the loop, or of the end of run()
SizingStep ==
    pc \in {"exits", "signal", "equity", "finish"} =>
        /\ \A t \in Range(open_positions') :
              \/ t \in Range(open_positions)
              \/ /\ pc = "signal"
                 /\ t.entry_time = i
                 /\ t.quantity
                       = IF config.position_sizing = "fixed"
                         THEN (config.position_size * config.initial_capital)
                                  \div (100 * current_bar.close)
                         ELSE (config.position_size * current_capital)
                                  \div (100 * current_bar.close)
        /\ \A c \in Range(NewlyClosed) :
              \E t \in Range(open_positions) :
                 /\ t.entry_time = c.entry_time
                 /\ t.entry_price = c.entry_price
                 /\ t.quantity = c.quantity

\* C28. Sizing modes: a Trade opened in fixed mode has quantity
\* position_size * initial_capital / bar close, whatever the cash; one opened
\* in percentage mode has quantity position_size * cash at entry / bar close;
\* a Trade that stays open, and one that is closed, keeps its quantity.
SizingModes == [][SizingStep]_vars

\* C28 witness: in percentage mode, a second Trade was opened with less cash
\* than the first and has a smaller quantity at the same close.
SizingModesWitness ==
    /\ config.position_sizing = "percentage"
    /\ Len(open_positions) = 2
    /\ open_positions[1].entry_price = open_positions[2].entry_price
    /\ open_positions[2].quantity < open_positions[1].quantity

\* the high, low and close of the bars of a frame
Prices(frame) ==
    [k \in 1..Len(frame) |->
        [low |-> frame[k].low, high |-> frame[k].high, close |-> frame[k].close]]

\* C22. No look-ahead in the replay: on bar i the signal function is handed
\* exactly the bars 0..i of the data, the bar of the exit check and of the
\* entry is bar i, and the atr of every bar up to i is the one computed from
\* the bars up to it alone.
NoLookAhead ==
    pc \in {"exits", "signal", "equity"}
        => /\ Len(historical_data) = i + 1
           /\ \A k \in 1..(i + 1) : historical_data[k] = data[k]
           /\ current_bar = data[i + 1]
           /\ config.use_atr_stops
                 => \A k \in 0..i :
                       data[k + 1].atr = Atr(Prices(SubSeq(data, 1, k + 1)), AtrPeriod, k)

\* C22 witness: the signal function is about to be called on a bar that is
\* not the last one, with an atr above 0 in the bar, and the next bar differs
\* from it.
NoLookAheadWitness ==
    /\ pc = "signal"
    /\ i + 1 < n
    /\ config.use_atr_stops
    /\ current_bar.atr # None
    /\ Val(current_bar.atr) > 0
    /\ Prices(data)[i + 2] # Prices(data)[i + 1]

\* the frames agree on their first k bars
AgreeUpTo(k) ==
    /\ k <= Len(df)
    /\ k <= Len(other_df)
    /\ \A j \in 1..k : df[j] = other_df[j]

\* the outputs of an indicator as one sequence of values per index
Outputs(out) ==
    IF applied.name = "bbands"
    THEN [k \in 1..Len(out.mid) |->
             <<out.upper[k], out.mid[k], out.lower[k], out.width2[k]>>]
    ELSE out

Indicators == {"sma", "ema", "rsi", "bbands", "atr", "adx"}

\* C23. No look-ahead in indicators: when two input series agree on the
\* indices up to i, the output of sma, ema, rsi, bbands, atr and adx at index
\* i is the same for both, whatever follows in either.
IndicatorsNoLookAhead ==
    applied.name \in Indicators
        => \A k \in 1..Len(df) :
              AgreeUpTo(k) => Outputs(applied.out)[k] = Outputs(applied.other_out)[k]

\* C23 witness: an indicator was applied to two frames that agree on their
\* first two bars and then differ, and its output at the second index is a
\* number.
IndicatorsNoLookAheadWitness ==
    /\ applied.name \in Indicators \ {"atr"}
    /\ AgreeUpTo(2)
    /\ Len(other_df) >= 3
    /\ df[3] # other_df[3]
    /\ Outputs(applied.out)[2] # NaN
    /\ Outputs(applied.out)[3] # Outputs(applied.other_out)[3]

\* the sum of the closes of bars from..to of df, as an integer
RECURSIVE SumClose(_, _)
SumClose(from, to) ==
    IF to < from THEN 0 ELSE df[to].close + SumClose(from, to - 1)

\* C24. SMA warm-up correctness: for a series of length n and a window w,
\* the output of sma has length n, is undefined at the first w - 1 indices
\* and is at every later index the arithmetic mean of the w inputs that end
\* there; when w > n every output is undefined.
SmaWarmUp ==
    applied.name = "sma"
        => /\ Len(applied.out) = Len(df)
           /\ \A k \in 1..Len(df) :
                  IF k < applied.arg
                  THEN applied.out[k] = NaN
                  ELSE /\ applied.out[k] # NaN
                       /\ applied.out[k][1] * applied.arg
                              = applied.out[k][2] * SumClose(k - applied.arg + 1, k)
           /\ applied.arg > Len(df) => \A k \in 1..Len(df) : applied.out[k] = NaN

\* C24 witness: sma with window 2 on the closes 20, 30, 10 is undefined,
\* 25 and 20.
SmaWarmUpWitness ==
    /\ applied.name = "sma"
    /\ applied.arg = 2
    /\ Column(df, "close") = <<Q(20, 1), Q(30, 1), Q(10, 1)>>
    /\ applied.out = <<NaN, <<25, 1>>, <<20, 1>>>>

\* a value at or above 0 and at or below 100
InPercentRange(x) == x[1] >= 0 /\ x[1] <= 100 * x[2]

InsufficientHistory ==
    (applied.name \in {"sma", "rsi"} /\ Len(df) < applied.arg)
        => \A k \in 1..Len(df) : applied.out[k] = NaN

Signals == {"sma_crossover", "rsi_reversion", "bb_breakout"}

\* the longest indicator window of the signal that was applied
LongestWindow ==
    CASE applied.name = "sma_crossover" -> applied.arg[2]
      [] applied.name = "rsi_reversion" -> applied.arg[3]
      [] applied.name = "bb_breakout" -> applied.arg[1]

\* C27. Strategies hold on insufficient data: on a series with fewer bars
\* than the indicator windows of the strategy, each of the sma_crossover,
\* rsi_reversion and bb_breakout signals reports HOLD, neither buy nor sell.
HoldOnInsufficientData ==
    (applied.name \in Signals /\ Len(df) < LongestWindow)
        => SignalName(applied.out) = "HOLD"

\* the handler has given its response
Responded == handler.pc = "responded"

\* the rows within the dates are too few for the loop of run() to reach one
TooShort == handler.request.in_range <= WarmUp

\* C21. Data errors are distinguishable from flat runs: an empty or
\* too-short series is reported to the caller as a rejection, never as the
\* successful zero-trade result of a valid run whose signal always holds.
DataErrorsRejected ==
    (Responded /\ TooShort) => handler.response.status # 200

\* the request has a missing required field, an end date not after the
\* start date, no data for the range, or an unknown strategy type
Invalid ==
    \/ handler.request.missing_field
    \/ handler.request.days <= 0
    \/ handler.request.klines # "frame"
    \/ handler.request.in_range = 0
    \/ handler.request.strategy_type = "unknown"

\* C30. API validation precedes the engine: for a request with a missing
\* required field, an end date not after the start date, no data for the
\* range, or an unknown strategy type, the handler returns an error response
\* and BacktestEngine.run is never invoked.
ValidationPrecedesEngine ==
    (handler # NoRequestYet /\ Invalid)
        => /\ Responded
           /\ handler.response.status \in {400, 500}
           /\ pc = "idle"
           /\ equity_curve = <<>>
           /\ performance_metrics = None

\* C30 witness: a request that is well formed and has data but names an
\* unknown strategy type was answered with status 400.
ValidationPrecedesEngineWitness ==
    /\ Responded
    /\ ~handler.request.missing_field
    /\ handler.request.days > 0
    /\ handler.request.klines = "frame"
    /\ handler.request.in_range > WarmUp
    /\ handler.request.strategy_type = "unknown"
    /\ handler.response = Error(400, "Unknown strategy type")
    /\ pc = "idle"

\* a step that stores a result: save_results, or the end of run_backtest
StoreStep ==
    /\ (pc = "done" /\ pc' = "saved")
          => UNCHANGED <<config, current_capital, open_positions, trades,
                         equity_curve, performance_metrics>>
    /\ (handler.pc = "running" /\ handler'.pc = "responded")
          => /\ UNCHANGED <<config, current_capital, open_positions, trades,
                            equity_curve, performance_metrics>>
             /\ handler'.response.status = 200
             /\ handler'.response.results
                   = ApiResultData(config, Val(performance_metrics), equity_curve,
                                   handler.request.days)

\* C29. Persistence is a best-effort side channel: whether the insert of
\* save_results or of the API handler stores the row or fails, the engine's
\* trades, equity curve and metrics are unchanged, and the handler returns
\* the result of the run.
PersistenceBestEffort == [][StoreStep]_vars

\* C29 witness: the handler has returned the result of a run that reached a
\* bar, and the table has no row: the insert failed.
PersistenceBestEffortWitness ==
    /\ Responded
    /\ handler.response.status = 200
    /\ handler.request.in_range > WarmUp
    /\ backtest_results = {}
    /\ pc = "done"

\* the Trades of a list, by the bar they were opened on: run() opens at most
\* one Trade per bar
Entries(s) == {t.entry_time : t \in Range(s)}

\* a step of a run, from a Trade's point of view
LifecycleStep ==
    pc # "idle" =>
        \* the ledger only grows, and what is in it is not modified
        /\ Len(trades') >= Len(trades)
        /\ SubSeq(trades', 1, Len(trades)) = trades
        \* a Trade is in one list only, and once in each
        /\ Entries(open_positions') \cap Entries(trades') = {}
        /\ Cardinality(Entries(open_positions')) = Len(open_positions')
        /\ Cardinality(Entries(trades')) = Len(trades')
        \* what enters the ledger was open, and is closed now
        /\ \A t \in Range(NewlyClosed) :
              /\ ExitSet(t)
              /\ \E o \in Range(open_positions) :
                    /\ ExitUnset(o)
                    /\ o.entry_time = t.entry_time
                    /\ o.entry_price = t.entry_price
                    /\ o.quantity = t.quantity
        \* what leaves open_positions enters the ledger
        /\ \A o \in Range(open_positions) :
              o \notin Range(open_positions') =>
                  o.entry_time \in Entries(NewlyClosed)
        /\ \A o \in Range(open_positions') : ExitUnset(o)

\* C31. Trade lifecycle is OPEN -> CLOSED with CLOSED terminal: within a run
\* each Trade is in exactly one of open_positions or the closed ledger, a
\* Trade is closed at most once, the closed ledger only grows, and a Trade in
\* the ledger is never modified or returned to open_positions.
TradeLifecycle == [][LifecycleStep]_vars

\* C31 witness: two Trades are in the ledger, closed on different bars, and
\* a third is open.
TradeLifecycleWitness ==
    /\ Len(trades) = 2
    /\ trades[1].exit_time # trades[2].exit_time
    /\ Len(open_positions) = 1
    /\ Entries(open_positions) \cap Entries(trades) = {}

\* C32. Cash ledger consistency: whenever no position is open, the engine's
\* cash is initial_capital plus the sum of the realized PnL of all closed
\* Trades, for any commission rate, slippage rate and price path.
CashLedger ==
    (pc # "idle" /\ open_positions = <<>>)
        => current_capital = config.initial_capital + SumPnl(trades)

\* C33. Available cash is never negative: in every state of a run, for any
\* sequence of opens and closes and any positive prices, current_capital >= 0.
CashNeverNegative == current_capital >= 0

\* C34. A backtest started through POST /api/backtest applies the selected
\* strategy: on every bar after the warm-up the action the engine acts on is
\* the one derived from the strategy module's signal, so a bar on which the
\* strategy reports buy with a free slot and enough cash opens a position.
ApiAppliesStrategy ==
    (handler.pc = "running" /\ handler.reported # None)
        => /\ signal = Val(handler.reported)
           /\ (pc = "equity" /\ handler.reported = Some("BUY"))
                 => open_positions # <<>>

\* the step is an iteration of task t: the flag was set at the test of the
\* while, and the task went from the test to the sleep
Iterated(t) ==
    /\ auto_enabled
    /\ loops[t].pc = "ready"
    /\ loops'[t].pc # "ready"

\* entry_price is set exactly when a position is held
Tracked(l) ==
    /\ l.position_qty >= 0
    /\ (l.position_qty > 0) <=> (l.entry_price # None)

AlternationStep ==
    \A t \in 1..Len(loops) :
        /\ Tracked(loops'[t])
        /\ Iterated(t) /\ loops'[t].ordered = Some("BUY") =>
              /\ loops[t].position_qty = 0
              /\ loops[t].last_order \in {None, Some("SELL")}
              /\ loops'[t].position_qty > 0
        /\ Iterated(t) /\ loops'[t].ordered = Some("SELL") =>
              /\ loops[t].position_qty > 0
              /\ loops[t].last_order = Some("BUY")
              /\ loops'[t].position_qty = 0

\* C35: in every step of a run_auto_loop task, a market buy succeeds only
\* when the tracked position was flat and the previous successful order, if
\* any, was a sell; a market sell succeeds only when a position was held and
\* the previous successful order was a buy; a buy leaves a position held and
\* a sell leaves it flat; and entry_price is set exactly when position_qty
\* is positive.
PositionAlternation == [][AlternationStep]_vars

\* C35 witness: a task has just sold the position that it bought earlier.
PositionAlternationWitness ==
    \E t \in 1..Len(loops) :
        /\ loops[t].ordered = Some("SELL")
        /\ loops[t].position_qty = 0
        /\ loops[t].entry_price = None

IsolationStep ==
    \A t \in 1..Len(loops) :
        Iterated(t) /\ loops'[t].raised # "none" =>
            /\ loops'[t].position_qty = loops[t].position_qty
            /\ loops'[t].entry_price = loops[t].entry_price
            /\ loops'[t].logged = "error"
            /\ loops'[t].pc = "sleeping"

\* C36: when fetch_klines, the signals or the order call raise in an
\* iteration, the iteration leaves position_qty and entry_price as they
\* were, its last log is the error log, and the task is at the sleep that
\* precedes the next test of the flag: it has not terminated.
ErrorIsolation == [][IsolationStep]_vars

\* C36 witness: the sell of a held position raised, and the position is
\* still tracked.
ErrorIsolationWitness ==
    \E t \in 1..Len(loops) :
        /\ loops[t].raised = "order"
        /\ loops[t].position_qty > 0
        /\ loops[t].entry_price # None
        /\ loops[t].logged = "error"

AllEnded == \A t \in 1..Len(loops) : loops[t].pc = "ended"

EndStep ==
    \A t \in 1..Len(loops) :
        /\ loops[t].pc # "ended" /\ loops'[t].pc = "ended" =>
              ~auto_enabled /\ loops'[t].logged = "end"
        /\ loops[t].pc = "ended" => loops'[t] = loops[t]

\* C37: a task terminates only at a test of the flag that finds it false,
\* and then its last log is the end log and it takes no further step; and if
\* the flag is false from some point on, every task has eventually terminated.
LoopTermination ==
    /\ [][EndStep]_vars
    /\ <>[](~auto_enabled) => <>[]AllEnded

\* C37 witness: a task that bought has terminated after auto_off.
LoopTerminationWitness ==
    /\ ~auto_enabled
    /\ \E t \in 1..Len(loops) :
          /\ loops[t].pc = "ended"
          /\ loops[t].logged = "end"
          /\ loops[t].last_order # None

\* C38: at most one run_auto_loop task is active: created and not terminated.
SingleLiveLoop ==
    Cardinality({t \in 1..Len(loops) : loops[t].pc # "ended"}) <= 1

\* every subscribed stream has a task that has not given up
Served ==
    \A stream \in DOMAIN callbacks :
        \E t \in 1..Len(listeners) :
            listeners[t].stream = stream /\ listeners[t].pc # "done"

ReconnectStep ==
    /\ \A t \in 1..Len(listeners) :
          /\ listeners[t].pc # "done" /\ listeners'[t].pc = "done" =>
                /\ listeners'[t].dropped = MaxReconnectAttempts
                /\ listeners[t].stream \notin connections'
                /\ listeners[t].stream \notin DOMAIN callbacks'
          /\ listeners'[t].pc \in {"connecting", "listening"} =>
                listeners'[t].dropped < MaxReconnectAttempts
          /\ listeners[t].pc = "connecting" /\ listeners'[t].pc = "listening" =>
                listeners'[t].reconnect_attempts = 0
          /\ listeners[t].pc = "done" => listeners'[t] = listeners[t]
    /\ \A stream \in DOMAIN callbacks' \ DOMAIN callbacks :
          /\ Len(listeners') = Len(listeners) + 1
          /\ listeners'[Len(listeners')] = NewListener(stream)

\* C39: a _connect_and_listen task ends exactly when the tenth exception in
\* a row, with no successful connection in between, is caught, and it never
\* connects again after that; every successful connection sets
\* reconnect_attempts to 0; the step that ends the task removes its stream
\* from connections and from callbacks; and a subscribe to a stream that is
\* not in callbacks creates a new task for it, so that every stream with
\* callbacks has a task that has not given up.
BoundedReconnection == [][ReconnectStep]_vars /\ []Served

\* C39 witness: a task gave up after ten failures in a row, the stream was
\* subscribed again, and its new task is connected.
BoundedReconnectionWitness ==
    \E t \in 1..Len(listeners), u \in 1..Len(listeners) :
        /\ listeners[t].pc = "done"
        /\ listeners[t].reconnect_attempts = MaxReconnectAttempts
        /\ u > t
        /\ listeners[u].stream = listeners[t].stream
        /\ listeners[u].pc = "listening"
        /\ listeners[u].stream \in connections

=============================================================================
